---- MODULE Spec2Model ----
(***************************************************************************)
(* The quiz session of practise-pitch-fe (src/src/App.tsx): the React      *)
(* state of the App component, one action per event handler or completed   *)
(* network response, and the pure helpers the handlers call.               *)
(*                                                                         *)
(* Conventions.  A JavaScript string on which the code computes (trim,     *)
(* toLowerCase, startsWith, parseInt, template literals) is a sequence of  *)
(* one-character strings; an opaque string (an error message, a select     *)
(* value) is a TLA+ string.  A nullable value is None or Some(v).  A       *)
(* number that may be NaN is NaN or Num(n).  Date.now() is the variable    *)
(* now, which only Tick advances.                                          *)
(***************************************************************************)
EXTENDS Integers, Sequences, FiniteSets, TLC

VARIABLES
    session,                  \* useState<Session | null>                (l. 91)
    isCreating,               \* generation request being awaited        (l. 51)
    error,                    \* top-level error message                 (l. 52)
    quizConfig,               \* the setup form                          (l. 55)
    formErrors,               \* set of fields with a validation error   (l. 71)
    effectiveTopic,           \* resolved topic of the last request      (l. 88)
    questions,                \* active QuestionSet                      (l. 65)
    preparedQuestions,        \* prepared QuestionSet                    (l. 66)
    currentQuestionIndex,     \*                                         (l. 67)
    userAnswers,              \* AnswerMap: index -> string              (l. 68)
    isSubmitted,              \*                                         (l. 69)
    showAnswers,              \*                                         (l. 74)
    quizStartTime,            \*                                         (l. 72)
    totalTimeMs,              \*                                         (l. 73)
    questionStartTime,        \*                                         (l. 107)
    currentQuestionElapsedMs, \*                                         (l. 108)
    perQuestionDurationsMs,   \* index -> accumulated ms                 (l. 109)
    saveStatus,               \*                                         (l. 76)
    saveError,                \*                                         (l. 77)
    showResultsPanel,         \*                                         (l. 79)
    resultDetailPage,         \*                                         (l. 87)
    genRequests,              \* generation requests in flight (fetch, l. 179)
    saveRequests,             \* save requests in flight (part_001 l. 21)
    signOutPending,           \* handleSignOut calls awaiting the provider (l. 388)
    resultsLoading,           \*                                         (l. 80)
    resultsError,             \*                                         (l. 81)
    results,                  \* the page of saved results shown         (l. 82)
    resultsPage,              \*                                         (l. 83)
    resultsLimit,             \*                                         (l. 84)
    resultsHasMore,           \*                                         (l. 85)
    selectedResult,           \*                                         (l. 86)
    resultsOps,               \* loadResultsPage / loadResultDetail calls awaiting
                              \* the token or the results service (l. 427-448)
    authEmail,                \*                                         (l. 92)
    authPassword,             \*                                         (l. 93)
    authName,                 \*                                         (l. 94)
    authMode,                 \*                                         (l. 95)
    authLoading,              \*                                         (l. 96)
    authError,                \*                                         (l. 97)
    authInfo,                 \*                                         (l. 98)
    authCalls,                \* handleEmailAuth calls awaiting the provider (l. 359-369)
    now,                      \* Date.now()
    lastOp,                   \* history: the handler that ran last and its branch
    probe                     \* history: last application of a pure helper

vars == <<session, isCreating, error, quizConfig, formErrors, effectiveTopic,
          questions, preparedQuestions, currentQuestionIndex, userAnswers,
          isSubmitted, showAnswers, quizStartTime, totalTimeMs,
          questionStartTime, currentQuestionElapsedMs, perQuestionDurationsMs,
          saveStatus, saveError, showResultsPanel, resultDetailPage,
          genRequests, saveRequests, signOutPending, resultsLoading,
          resultsError, results, resultsPage, resultsLimit, resultsHasMore,
          selectedResult, resultsOps, authEmail, authPassword, authName,
          authMode, authLoading, authError, authInfo, authCalls, now, lastOp,
          probe>>

\* the state of the results panel and of the sign-in form
resultsVars == <<resultsLoading, resultsError, results, resultsPage,
                 resultsLimit, resultsHasMore, selectedResult, resultsOps>>
authVars == <<authEmail, authPassword, authName, authMode, authLoading,
              authError, authInfo, authCalls>>

(***************************************************************************)
(* Bounds of the model.                                                    *)
(***************************************************************************)
\* Questions of the sets the score is computed on (scoring specification).
MaxScoreQuestions == 2
\* Date.now() runs over 1..MaxTime.
MaxTime == 4
\* Save requests that may be awaiting their response at once.
MaxSaves == 1
\* handleSignOut calls that may be awaiting the provider at once.
MaxSignOuts == 1

(***************************************************************************)
(* Values.                                                                 *)
(***************************************************************************)
None == <<>>
Some(v) == <<v>>
Get(o) == o[1]

NaN == <<>>
Num(n) == <<n>>
IsNaN(x) == x = NaN

\* JavaScript truthiness of a string, of a number or NaN, of number | null.
TruthyStr(s) == s # <<>>
TruthyNum(x) == ~IsNaN(x) /\ x[1] # 0
TruthyTime(o) == o # None /\ Get(o) # 0

EmptyMap == << >>
\* { ...m, [k]: v }
Upsert(m, k, v) == [i \in (DOMAIN m) \cup {k} |-> IF i = k THEN v ELSE m[i]]
\* m[k] || 0
OrZero(m, k) == IF k \in DOMAIN m THEN m[k] ELSE 0

RECURSIVE SumOver(_, _)
SumOver(m, S) ==
    IF S = {} THEN 0
    ELSE LET k == CHOOSE k \in S : TRUE IN m[k] + SumOver(m, S \ {k})
SumMap(m) == SumOver(m, DOMAIN m)

(***************************************************************************)
(* Strings the code computes on.                                           *)
(***************************************************************************)
UpperAlpha == <<"A","B","C","D","E","F","G","H","I","J","K","L","M",
                "N","O","P","Q","R","S","T","U","V","W","X","Y","Z">>
LowerAlpha == <<"a","b","c","d","e","f","g","h","i","j","k","l","m",
                "n","o","p","q","r","s","t","u","v","w","x","y","z">>
Whitespace == {" ", "\t", "\n"}

LowerChar(c) ==
    IF \E i \in 1..26 : UpperAlpha[i] = c
    THEN LowerAlpha[CHOOSE i \in 1..26 : UpperAlpha[i] = c]
    ELSE c
\* String.prototype.toLowerCase
ToLowerCase(s) == [i \in 1..Len(s) |-> LowerChar(s[i])]

RECURSIVE TrimStart(_)
TrimStart(s) ==
    IF s # <<>> /\ Head(s) \in Whitespace THEN TrimStart(Tail(s)) ELSE s
RECURSIVE TrimEnd(_)
TrimEnd(s) ==
    IF s # <<>> /\ s[Len(s)] \in Whitespace
    THEN TrimEnd(SubSeq(s, 1, Len(s) - 1)) ELSE s
\* String.prototype.trim
Trim(s) == TrimEnd(TrimStart(s))

\* String.prototype.startsWith
StartsWith(s, p) == Len(p) =< Len(s) /\ SubSeq(s, 1, Len(p)) = p

S_AnyTopic == <<"a","n","y"," ","t","o","p","i","c">>
S_miscellaneous == <<"m","i","s","c","e","l","l","a","n","e","o","u","s">>
S_miscellanious == <<"m","i","s","c","e","l","l","a","n","i","o","u","s">>
S_Miscellaneous == <<"M","i","s","c","e","l","l","a","n","e","o","u","s">>
S_RelatedTo == <<" ","r","e","l","a","t","e","d"," ","t","o"," ">>
S_Colon == <<" ",":"," ">>
S_UPSC == <<"U","P","S","C">>

\* variant: the sentinels are compared without toLowerCase
resolveTopic_caseSensitive(cfg) ==
    LET raw == Trim(cfg.topic)
    IN  IF ~TruthyStr(raw) \/ raw = S_AnyTopic \/ raw = S_miscellaneous
           \/ raw = S_miscellanious
        THEN LET exam == Trim(cfg.exam)
             IN  IF TruthyStr(exam)
                 THEN S_Miscellaneous \o S_RelatedTo \o exam
                 ELSE S_Miscellaneous
        ELSE raw

\* function resolveTopic(cfg: { topic: string; exam: string })
resolveTopic(cfg) ==
    LET raw == Trim(cfg.topic)
        lower == ToLowerCase(raw)
    IN  IF ~TruthyStr(raw) \/ lower = S_AnyTopic \/ lower = S_miscellaneous
           \/ lower = S_miscellanious
        THEN LET exam == Trim(cfg.exam)
             IN  IF TruthyStr(exam)
                 THEN S_Miscellaneous \o S_RelatedTo \o exam
                 ELSE S_Miscellaneous
        ELSE raw

(***************************************************************************)
(* parseInt(value, 10) on the text of the number input.                    *)
(***************************************************************************)
Digits == <<"0","1","2","3","4","5","6","7","8","9">>
IsDigit(c) == \E i \in 1..10 : Digits[i] = c
DigitVal(c) == (CHOOSE i \in 1..10 : Digits[i] = c) - 1

RECURSIVE DigitPrefix(_, _, _)
\* value of the longest digit prefix of s, acc digits read so far (seen many)
DigitPrefix(s, acc, seen) ==
    IF s # <<>> /\ IsDigit(Head(s))
    THEN DigitPrefix(Tail(s), acc * 10 + DigitVal(Head(s)), seen + 1)
    ELSE IF seen = 0 THEN NaN ELSE Num(acc)

parseInt(s) ==
    LET t == TrimStart(s)
        neg == t # <<>> /\ Head(t) = "-"
        body == IF t # <<>> /\ Head(t) \in {"-", "+"} THEN Tail(t) ELSE t
        r == DigitPrefix(body, 0, 0)
    IN  IF IsNaN(r) THEN NaN ELSE IF neg THEN Num(0 - r[1]) ELSE r

(***************************************************************************)
(* function formatDuration(ms: number)                                     *)
(***************************************************************************)
RECURSIVE NumberToString(_)
\* String(n) of a non-negative integer
NumberToString(n) ==
    IF n < 10 THEN <<Digits[n + 1]>>
    ELSE NumberToString(n \div 10) \o <<Digits[(n % 10) + 1]>>

RECURSIVE padStart(_, _, _)
\* String.prototype.padStart with a one-character fill
padStart(str, targetLength, fill) ==
    IF Len(str) >= targetLength THEN str
    ELSE padStart(<<fill>> \o str, targetLength, fill)

\* variant: the minutes wrap at 60
formatDuration_wrapsMinutes(ms) ==
    LET floorSeconds == ms \div 1000
        totalSeconds == IF floorSeconds > 0 THEN floorSeconds ELSE 0
        minutes == (totalSeconds \div 60) % 60
        seconds == totalSeconds % 60
    IN  padStart(NumberToString(minutes), 2, "0") \o <<":">> \o
        padStart(NumberToString(seconds), 2, "0")

formatDuration(ms) ==
    LET floorSeconds == ms \div 1000
        totalSeconds == IF floorSeconds > 0 THEN floorSeconds ELSE 0
        minutes == totalSeconds \div 60
        seconds == totalSeconds % 60
        mm == padStart(NumberToString(minutes), 2, "0")
        ss == padStart(NumberToString(seconds), 2, "0")
    IN  mm \o <<":">> \o ss

(***************************************************************************)
(* Validation of the form.                                                 *)
(***************************************************************************)
QNoMessage == "Questions must be between 1 and 20"

\* variant: the upper bound of the range is not checked
validationErrors_noUpperBound(cfg) ==
    IF ~TruthyNum(cfg.q_no) \/ IsNaN(cfg.q_no) \/ cfg.q_no[1] < 1
    THEN [q_no |-> QNoMessage]
    ELSE EmptyMap

\* the errors object built by validateAndSetErrors
validationErrors(cfg) ==
    IF ~TruthyNum(cfg.q_no) \/ IsNaN(cfg.q_no) \/ cfg.q_no[1] < 1 \/ cfg.q_no[1] > 20
    THEN [q_no |-> QNoMessage]
    ELSE EmptyMap
\* its return value: Object.keys(errors).length > 0
hasErrors(cfg) == DOMAIN validationErrors(cfg) # {}

(***************************************************************************)
(* Question sets and the score.                                            *)
(***************************************************************************)
totalQuestions(qs) == Len(qs.QuestionArray)

RECURSIVE scoreFrom(_, _, _)
\* the forEach loop of calculateScore from index i (0-based) on
scoreFrom(qs, answers, i) ==
    IF i >= Len(qs.QuestionArray) THEN 0
    ELSE LET correctAnswerLetter == qs.AnswerArray[i + 1]
             hit == /\ i \in DOMAIN answers
                    /\ TruthyStr(answers[i])
                    /\ StartsWith(answers[i], correctAnswerLetter)
         IN  (IF hit THEN 1 ELSE 0) + scoreFrom(qs, answers, i + 1)

\* variant: the loop starts at the second question
calculateScore_skipsFirst(q, answers) ==
    IF q = None \/ Get(q).questionType # "MCQ" THEN 0
    ELSE scoreFrom(Get(q), answers, 1)

\* calculateScore() on the rendered questions and userAnswers
calculateScore(q, answers) ==
    IF q = None \/ Get(q).questionType # "MCQ" THEN 0
    ELSE scoreFrom(Get(q), answers, 0)

(***************************************************************************)
(* Initial state: the useState initialisers of App.                        *)
(***************************************************************************)
DefaultConfig ==
    [exam |-> S_UPSC, q_no |-> Num(5), difficulty |-> "Medium",
     topic |-> S_Miscellaneous, questionType |-> "MCQ", language |-> "English"]

\* the useState initialisers of the results panel (l. 80-86)
PanelInit ==
    /\ resultsLoading = FALSE
    /\ resultsError = None
    /\ results = None
    /\ resultsPage = 0
    /\ resultsLimit = 5
    /\ resultsHasMore = FALSE
    /\ selectedResult = None
    /\ resultsOps = <<>>

\* the useState initialisers of the sign-in form (l. 92-98)
AuthFormInit ==
    /\ authEmail = ""
    /\ authPassword = ""
    /\ authName = <<>>
    /\ authMode = "signIn"
    /\ authLoading = FALSE
    /\ authError = None
    /\ authInfo = None
    /\ authCalls = <<>>

Init ==
    /\ session = None
    /\ isCreating = FALSE
    /\ error = None
    /\ quizConfig = DefaultConfig
    /\ formErrors = EmptyMap
    /\ effectiveTopic = S_Miscellaneous
    /\ questions = None
    /\ preparedQuestions = None
    /\ currentQuestionIndex = 0
    /\ userAnswers = EmptyMap
    /\ isSubmitted = FALSE
    /\ showAnswers = FALSE
    /\ quizStartTime = None
    /\ totalTimeMs = None
    /\ questionStartTime = None
    /\ currentQuestionElapsedMs = 0
    /\ perQuestionDurationsMs = EmptyMap
    /\ saveStatus = "idle"
    /\ saveError = None
    /\ showResultsPanel = FALSE
    /\ resultDetailPage = None
    /\ genRequests = <<>>
    /\ saveRequests = <<>>
    /\ signOutPending = 0
    /\ PanelInit
    /\ AuthFormInit
    /\ now = 1
    /\ lastOp = "init"
    /\ probe = None

(***************************************************************************)
(* What the main render shows (App.tsx l. 1046-1096).                      *)
(***************************************************************************)
Authenticated == session # None
MainView == Authenticated /\ error = None /\ resultDetailPage = None
SetupFormShown == MainView /\ questions = None /\ preparedQuestions = None
ReadyScreenShown == MainView /\ questions = None /\ preparedQuestions # None
QuizShown == MainView /\ questions # None /\ ~isSubmitted
ResultsShown == MainView /\ questions # None /\ isSubmitted /\ ~showAnswers
AnswersShown == MainView /\ questions # None /\ isSubmitted /\ showAnswers

RemoveAt(s, i) == SubSeq(s, 1, i - 1) \o SubSeq(s, i + 1, Len(s))

(***************************************************************************)
(* Authentication callbacks.                                               *)
(***************************************************************************)
ProviderSession == [access_token |-> "jwt", user |-> "user-1"]

\* supabaseClient.auth.onAuthStateChange((_event, session) => setSession(session))
AuthStateChange(s) ==
    /\ session' = s
    /\ lastOp' = "authStateChange"
    /\ UNCHANGED <<isCreating, error, quizConfig, formErrors, effectiveTopic,
                   questions, preparedQuestions, currentQuestionIndex,
                   userAnswers, isSubmitted, showAnswers, quizStartTime,
                   totalTimeMs, questionStartTime, currentQuestionElapsedMs,
                   perQuestionDurationsMs, saveStatus, saveError,
                   showResultsPanel, resultDetailPage, genRequests,
                   saveRequests, signOutPending, now, probe>>
    /\ UNCHANGED <<resultsVars, authVars>>

\* handleSignOut up to its await of supabaseClient.auth.signOut()
handleSignOut ==
    /\ Authenticated
    /\ signOutPending < MaxSignOuts
    /\ signOutPending' = signOutPending + 1
    /\ lastOp' = "signOut:called"
    /\ UNCHANGED <<session, isCreating, error, quizConfig, formErrors,
                   effectiveTopic, questions, preparedQuestions,
                   currentQuestionIndex, userAnswers, isSubmitted, showAnswers,
                   quizStartTime, totalTimeMs, questionStartTime,
                   currentQuestionElapsedMs, perQuestionDurationsMs, saveStatus,
                   saveError, showResultsPanel, resultDetailPage, genRequests,
                   saveRequests, now, probe>>
    /\ UNCHANGED <<resultsVars, authVars>>

\* handleSignOut after the await (the provider's failure is swallowed)
SignOutCompletes ==
    /\ signOutPending > 0
    /\ signOutPending' = signOutPending - 1
    /\ session' = None
    /\ questions' = None
    /\ isSubmitted' = FALSE
    /\ showAnswers' = FALSE
    /\ lastOp' = "signOut:done"
    /\ UNCHANGED <<isCreating, error, quizConfig, formErrors, effectiveTopic,
                   preparedQuestions, currentQuestionIndex, userAnswers,
                   quizStartTime, totalTimeMs, questionStartTime,
                   currentQuestionElapsedMs, perQuestionDurationsMs, saveStatus,
                   saveError, showResultsPanel, resultDetailPage, genRequests,
                   saveRequests, now, probe>>
    /\ UNCHANGED <<resultsVars, authVars>>

(***************************************************************************)
(* The sign-in form.                                                       *)
(***************************************************************************)
\* VITE_ADMIN_EMAIL || 'admin@example.com', VITE_ADMIN_PASSWORD || 'admin123'
adminEmail == "admin@example.com"
adminPassword == "admin123"

\* Gate 2 of the render: the landing page with the auth card (l. 939)
AuthPageShown == session = None

\* the session handleEmailAuth builds for the admin pair
fakeSession == [access_token |-> "dev-bypass", user |-> "dev-admin"]

\* everything but session and the sign-in form
appVars == <<isCreating, error, quizConfig, formErrors, effectiveTopic,
             questions, preparedQuestions, currentQuestionIndex, userAnswers,
             isSubmitted, showAnswers, quizStartTime, totalTimeMs,
             questionStartTime, currentQuestionElapsedMs,
             perQuestionDurationsMs, saveStatus, saveError, showResultsPanel,
             resultDetailPage, genRequests, saveRequests, signOutPending,
             resultsVars, now, probe>>

\* onChange={(e) => setAuthEmail(e.target.value)}
setAuthEmail(value) ==
    /\ AuthPageShown
    /\ authEmail' = value
    /\ lastOp' = "setAuthEmail"
    /\ UNCHANGED <<session, appVars, authPassword, authName, authMode,
                   authLoading, authError, authInfo, authCalls>>

\* onChange={(e) => setAuthPassword(e.target.value)}
setAuthPassword(value) ==
    /\ AuthPageShown
    /\ authPassword' = value
    /\ lastOp' = "setAuthPassword"
    /\ UNCHANGED <<session, appVars, authEmail, authName, authMode,
                   authLoading, authError, authInfo, authCalls>>

\* onChange={(e) => setAuthName(e.target.value)}, rendered in sign-up mode
setAuthName(value) ==
    /\ AuthPageShown
    /\ authMode = "signUp"
    /\ authName' = value
    /\ lastOp' = "setAuthName"
    /\ UNCHANGED <<session, appVars, authEmail, authPassword, authMode,
                   authLoading, authError, authInfo, authCalls>>

\* onClick={() => setAuthMode('signUp')} / setAuthMode('signIn'): the link
\* shown is the one to the other mode
setAuthMode(mode) ==
    /\ AuthPageShown
    /\ authMode # mode
    /\ authMode' = mode
    /\ lastOp' = "setAuthMode"
    /\ UNCHANGED <<session, appVars, authEmail, authPassword, authName,
                   authLoading, authError, authInfo, authCalls>>

\* disabled={authLoading || !authEmail || !authPassword ||
\*           (authMode === 'signUp' && !authName.trim())}
authDisabled ==
    \/ authLoading
    \/ authEmail = ""
    \/ authPassword = ""
    \/ (authMode = "signUp" /\ ~TruthyStr(Trim(authName)))

\* variant: the mode is not tested
isBypass_anyMode == authEmail = adminEmail /\ authPassword = adminPassword

\* authMode === 'signIn' && authEmail === adminEmail && authPassword === adminPassword
isBypass ==
    authMode = "signIn" /\ authEmail = adminEmail /\ authPassword = adminPassword

\* the provider operation handleEmailAuth awaits, with its arguments
providerCall ==
    [op |-> IF authMode = "signIn" THEN "signInWithPassword" ELSE "signUp",
     email |-> authEmail, password |-> authPassword, name |-> authName]

\* handleEmailAuth: the bypass, which returns before any await (its finally
\* block runs in the same call), or the call up to its await of the provider
handleEmailAuth ==
    /\ AuthPageShown
    /\ ~authDisabled
    /\ authError' = None
    /\ IF isBypass
       THEN /\ session' = Some(fakeSession)
            /\ authLoading' = FALSE
            /\ lastOp' = "auth:bypass"
            /\ UNCHANGED authCalls
       ELSE /\ authLoading' = TRUE
            /\ authCalls' = Append(authCalls, providerCall)
            /\ lastOp' = "auth:called"
            /\ UNCHANGED session
    /\ UNCHANGED <<appVars, authEmail, authPassword, authName, authMode,
                   authInfo>>

\* handleEmailAuth after the await: the provider reported no error
AuthCallSucceeds(i) ==
    /\ i \in 1..Len(authCalls)
    /\ authCalls' = RemoveAt(authCalls, i)
    /\ authLoading' = FALSE
    /\ IF authCalls[i].op = "signUp"
       THEN /\ authInfo' = Some(authCalls[i].email)
            /\ authMode' = "signIn"
            /\ authPassword' = ""
            /\ authName' = <<>>
       ELSE UNCHANGED <<authInfo, authMode, authPassword, authName>>
    /\ lastOp' = "auth:success"
    /\ UNCHANGED <<session, appVars, authEmail, authError>>

\* the messages the provider's error can carry
AuthErrors == {"Invalid login credentials"}

\* handleEmailAuth after the await: the provider reported an error
AuthCallFails(i, msg) ==
    /\ i \in 1..Len(authCalls)
    /\ authCalls' = RemoveAt(authCalls, i)
    /\ authError' = Some(msg)
    /\ authLoading' = FALSE
    /\ lastOp' = "auth:failure"
    /\ UNCHANGED <<session, appVars, authEmail, authPassword, authName,
                   authMode, authInfo>>

(***************************************************************************)
(* The setup form and the generation request.                              *)
(***************************************************************************)
\* the value handleConfigChange stores for an input of the given type
inputValue(type, value) == IF type = "number" THEN parseInt(value) ELSE value

handleConfigChange(name, type, value) ==
    LET nextConfig == [quizConfig EXCEPT ![name] = inputValue(type, value)]
    IN  /\ SetupFormShown
        /\ quizConfig' = nextConfig
        /\ formErrors' = validationErrors(nextConfig)
        /\ lastOp' = "configChange"
        /\ UNCHANGED <<session, isCreating, error, effectiveTopic, questions,
                       preparedQuestions, currentQuestionIndex, userAnswers,
                       isSubmitted, showAnswers, quizStartTime, totalTimeMs,
                       questionStartTime, currentQuestionElapsedMs,
                       perQuestionDurationsMs, saveStatus, saveError,
                       showResultsPanel, resultDetailPage, genRequests,
                       saveRequests, signOutPending, now, probe>>
        /\ UNCHANGED <<resultsVars, authVars>>

\* variant: the form's topic is sent as typed
generationBody_rawTopic(cfg) == cfg

\* body: JSON.stringify({ ...quizConfig, topic: resolvedTopic })
generationBody(cfg) == [cfg EXCEPT !.topic = resolveTopic(cfg)]

\* The continuation of handleCreateQuiz that awaits the response: the request
\* sent and the quizConfig of the render the handler closed over.
pendingGeneration(cfg) == [body |-> generationBody(cfg), quizConfig |-> cfg]

\* variant: the submit button is never disabled
createDisabled_never == FALSE

\* disabled={isCreating || !!formErrors.q_no} of the submit button.  Its
\* second conjunct is the check of l. 154 made one render earlier and is
\* left to the handler: a submit event that reaches the handler with an
\* invalid form takes the early return of l. 155-158.
createDisabled == isCreating

\* handleCreateQuiz up to its await of fetch
handleCreateQuiz ==
    /\ SetupFormShown
    /\ ~createDisabled
    /\ error' = None
    /\ questions' = None
    /\ preparedQuestions' = None
    /\ userAnswers' = EmptyMap
    /\ currentQuestionIndex' = 0
    /\ isSubmitted' = FALSE
    /\ totalTimeMs' = None
    /\ formErrors' = validationErrors(quizConfig)
    /\ IF hasErrors(quizConfig)
       THEN /\ isCreating' = FALSE
            /\ lastOp' = "create:invalid"
            /\ UNCHANGED <<effectiveTopic, genRequests>>
       ELSE /\ isCreating' = TRUE
            /\ effectiveTopic' = resolveTopic(quizConfig)
            /\ genRequests' = Append(genRequests, pendingGeneration(quizConfig))
            /\ lastOp' = "create:issued"
    /\ UNCHANGED <<session, quizConfig, showAnswers, quizStartTime,
                   questionStartTime, currentQuestionElapsedMs,
                   perQuestionDurationsMs, saveStatus, saveError,
                   showResultsPanel, resultDetailPage, saveRequests,
                   signOutPending, now, probe>>
    /\ UNCHANGED <<resultsVars, authVars>>

\* variant: the returned set is not stored
preparedAfterSuccess_dropped(data) == None

\* what the success branch stores: setPreparedQuestions(result.data)
preparedAfterSuccess(data) == Some(data)

\* handleCreateQuiz after the await: response.ok and result.status === 'success'
GenerationSucceeds(i, data) ==
    /\ i \in 1..Len(genRequests)
    /\ genRequests' = RemoveAt(genRequests, i)
    /\ preparedQuestions' = preparedAfterSuccess(data)
    /\ isCreating' = FALSE
    /\ lastOp' = "generation:success"
    /\ UNCHANGED <<session, error, quizConfig, formErrors, effectiveTopic,
                   questions, currentQuestionIndex, userAnswers, isSubmitted,
                   showAnswers, quizStartTime, totalTimeMs, questionStartTime,
                   currentQuestionElapsedMs, perQuestionDurationsMs, saveStatus,
                   saveError, showResultsPanel, resultDetailPage, saveRequests,
                   signOutPending, now, probe>>
    /\ UNCHANGED <<resultsVars, authVars>>

\* the messages the catch block can store in error
GenerationErrors == {"API Error: 500", "Failed to fetch", "Failed to parse quiz data"}

\* variant: the failure is swallowed
failureError_swallowed(msg) == None

\* setError(err instanceof Error ? err.message : 'An unknown error occurred.')
failureError(msg) == Some(msg)

\* handleCreateQuiz after the await: !response.ok, fetch rejected, or a
\* 200 response whose status is not 'success'
GenerationFails(i, msg) ==
    /\ i \in 1..Len(genRequests)
    /\ genRequests' = RemoveAt(genRequests, i)
    /\ error' = failureError(msg)
    /\ isCreating' = FALSE
    /\ lastOp' = "generation:failure"
    /\ UNCHANGED <<session, quizConfig, formErrors, effectiveTopic, questions,
                   preparedQuestions, currentQuestionIndex, userAnswers,
                   isSubmitted, showAnswers, quizStartTime, totalTimeMs,
                   questionStartTime, currentQuestionElapsedMs,
                   perQuestionDurationsMs, saveStatus, saveError,
                   showResultsPanel, resultDetailPage, saveRequests,
                   signOutPending, now, probe>>
    /\ UNCHANGED <<resultsVars, authVars>>

\* onClick={() => setError(null)} of the error card
dismissError ==
    /\ Authenticated
    /\ error # None
    /\ error' = None
    /\ lastOp' = "dismissError"
    /\ UNCHANGED <<session, isCreating, quizConfig, formErrors, effectiveTopic,
                   questions, preparedQuestions, currentQuestionIndex,
                   userAnswers, isSubmitted, showAnswers, quizStartTime,
                   totalTimeMs, questionStartTime, currentQuestionElapsedMs,
                   perQuestionDurationsMs, saveStatus, saveError,
                   showResultsPanel, resultDetailPage, genRequests,
                   saveRequests, signOutPending, now, probe>>
    /\ UNCHANGED <<resultsVars, authVars>>

(***************************************************************************)
(* Taking the quiz.                                                        *)
(***************************************************************************)
\* the timing origins beginPreparedQuiz writes: setQuizStartTime(Date.now())
\* is its only write to a timing origin (questionStartTime is not assigned)
startStamps == [quizStartTime |-> Some(now), questionStartTime |-> questionStartTime]

\* variant: the early return of l. 207 is missing
hasPrepared_always == TRUE

\* the negation of the early return's test: if (!preparedQuestions) return
hasPrepared == preparedQuestions # None

\* beginPreparedQuiz.  The Start button is rendered on the ready screen; a
\* call that finds no prepared set takes the early return.
beginPreparedQuiz ==
    /\ MainView
    /\ questions = None
    /\ IF hasPrepared
       THEN /\ questions' = preparedQuestions
            /\ preparedQuestions' = None
            /\ quizStartTime' = startStamps.quizStartTime
            /\ questionStartTime' = startStamps.questionStartTime
            /\ currentQuestionElapsedMs' = 0
            /\ perQuestionDurationsMs' = EmptyMap
            /\ currentQuestionIndex' = 0
            /\ userAnswers' = EmptyMap
            /\ isSubmitted' = FALSE
            /\ lastOp' = "begin"
       ELSE /\ lastOp' = "begin:none"
            /\ UNCHANGED <<questions, preparedQuestions, quizStartTime,
                           questionStartTime, currentQuestionElapsedMs,
                           perQuestionDurationsMs, currentQuestionIndex,
                           userAnswers, isSubmitted>>
    /\ UNCHANGED <<session, isCreating, error, quizConfig, formErrors,
                   effectiveTopic, showAnswers, totalTimeMs, saveStatus,
                   saveError, showResultsPanel, resultDetailPage, genRequests,
                   saveRequests, signOutPending, now, probe>>
    /\ UNCHANGED <<resultsVars, authVars>>

\* the values the current question offers to handleAnswerChange: an option of
\* the MCQ question (onAnswerSelect(option)) or the textarea's text
answerChoices(texts) ==
    IF questions = None THEN {}
    ELSE LET qs == Get(questions)
         IN  IF currentQuestionIndex >= totalQuestions(qs) THEN {}
             ELSE IF qs.questionType = "MCQ"
                  THEN {qs.QuestionArray[currentQuestionIndex + 1].Options[j] :
                          j \in 1..Len(qs.QuestionArray[currentQuestionIndex + 1].Options)}
                  ELSE texts

\* variant: the previous answers are not spread into the new map
answered_dropsOthers(value) == Upsert(EmptyMap, currentQuestionIndex, value)

\* prevAnswers => ({ ...prevAnswers, [currentQuestionIndex]: value })
answered(value) == Upsert(userAnswers, currentQuestionIndex, value)

handleAnswerChange(value) ==
    /\ QuizShown
    /\ userAnswers' = answered(value)
    /\ lastOp' = "answer"
    /\ UNCHANGED <<session, isCreating, error, quizConfig, formErrors,
                   effectiveTopic, questions, preparedQuestions,
                   currentQuestionIndex, isSubmitted, showAnswers,
                   quizStartTime, totalTimeMs, questionStartTime,
                   currentQuestionElapsedMs, perQuestionDurationsMs, saveStatus,
                   saveError, showResultsPanel, resultDetailPage, genRequests,
                   saveRequests, signOutPending, now, probe>>
    /\ UNCHANGED <<resultsVars, authVars>>

\* questionStartTime ? Date.now() - questionStartTime : 0
elapsedSinceQuestionStart ==
    IF TruthyTime(questionStartTime) THEN now - Get(questionStartTime) ELSE 0

\* variant: the elapsed time replaces the accumulated value
flushed_overwrites(elapsed) ==
    Upsert(perQuestionDurationsMs, currentQuestionIndex, elapsed)

\* prev => ({ ...prev, [currentQuestionIndex]: (prev[currentQuestionIndex] || 0) + elapsed })
flushed(elapsed) ==
    Upsert(perQuestionDurationsMs, currentQuestionIndex,
           OrZero(perQuestionDurationsMs, currentQuestionIndex) + elapsed)

\* variant: the bound compared without the "- 1"
canGoNext_offByOne == currentQuestionIndex < totalQuestions(Get(questions))

\* the guard of handleNextQuestion
canGoNext == currentQuestionIndex < totalQuestions(Get(questions)) - 1

handleNextQuestion ==
    /\ QuizShown
    /\ IF canGoNext
       THEN /\ perQuestionDurationsMs' = flushed(elapsedSinceQuestionStart)
            /\ currentQuestionIndex' = currentQuestionIndex + 1
            /\ questionStartTime' = Some(now)
            /\ currentQuestionElapsedMs' = 0
            /\ lastOp' = "next:moved"
       ELSE /\ lastOp' = "next:bound"
            /\ UNCHANGED <<perQuestionDurationsMs, currentQuestionIndex,
                           questionStartTime, currentQuestionElapsedMs>>
    /\ UNCHANGED <<session, isCreating, error, quizConfig, formErrors,
                   effectiveTopic, questions, preparedQuestions, userAnswers,
                   isSubmitted, showAnswers, quizStartTime, totalTimeMs,
                   saveStatus, saveError, showResultsPanel, resultDetailPage,
                   genRequests, saveRequests, signOutPending, now, probe>>
    /\ UNCHANGED <<resultsVars, authVars>>

\* the guard of handlePrevQuestion
canGoPrev == currentQuestionIndex > 0

handlePrevQuestion ==
    /\ QuizShown
    /\ IF canGoPrev
       THEN /\ perQuestionDurationsMs' = flushed(elapsedSinceQuestionStart)
            /\ currentQuestionIndex' = currentQuestionIndex - 1
            /\ questionStartTime' = Some(now)
            /\ currentQuestionElapsedMs' = 0
            /\ lastOp' = "prev:moved"
       ELSE /\ lastOp' = "prev:bound"
            /\ UNCHANGED <<perQuestionDurationsMs, currentQuestionIndex,
                           questionStartTime, currentQuestionElapsedMs>>
    /\ UNCHANGED <<session, isCreating, error, quizConfig, formErrors,
                   effectiveTopic, questions, preparedQuestions, userAnswers,
                   isSubmitted, showAnswers, quizStartTime, totalTimeMs,
                   saveStatus, saveError, showResultsPanel, resultDetailPage,
                   genRequests, saveRequests, signOutPending, now, probe>>
    /\ UNCHANGED <<resultsVars, authVars>>

\* const total = quizStartTime ? Date.now() - quizStartTime : 0
totalElapsed == IF TruthyTime(quizStartTime) THEN now - Get(quizStartTime) ELSE 0

\* `${quizConfig.exam} : ${effectiveTopic || resolveTopic(quizConfig)}`
topicForSave ==
    quizConfig.exam \o S_Colon \o
    (IF TruthyStr(effectiveTopic) THEN effectiveTopic ELSE resolveTopic(quizConfig))

\* variant: timeMs is read from the totalTimeMs of the render that submits
savePayload_staleTotal(timeMsToSend) ==
    [topic |-> topicForSave,
     timeMs |-> IF totalTimeMs = None THEN 0 ELSE Get(totalTimeMs),
     questions |-> Get(questions),
     solutions |-> [userAnswers |-> userAnswers,
                    score |-> calculateScore(questions, userAnswers)]]

\* the payload saveResults hands to saveResultsToBackend
savePayload(timeMsToSend) ==
    [topic |-> topicForSave, timeMs |-> timeMsToSend, questions |-> Get(questions),
     solutions |-> [userAnswers |-> userAnswers,
                    score |-> calculateScore(questions, userAnswers)]]

\* variant: the POST is sent a second time
savesIssued_twice(timeMsToSend) ==
    <<savePayload(timeMsToSend), savePayload(timeMsToSend)>>

\* the requests saveResults(total) sends: one POST by saveResultsToBackend
savesIssued(timeMsToSend) == <<savePayload(timeMsToSend)>>

\* variant: the submit button is rendered on every question
isLastQuestion_always == TRUE

\* the submit button is rendered in place of Next on the last question
isLastQuestion == currentQuestionIndex = totalQuestions(Get(questions)) - 1

\* the forward button renderQuiz shows: isLastQuestion ? Submit Quiz : Next
forwardAction == IF isLastQuestion THEN "submit" ELSE "next"

\* handleSubmitQuiz, with saveResults up to its await of saveResultsToBackend,
\* while fewer than inFlight save requests are pending
handleSubmitQuizWithin(inFlight) ==
    /\ QuizShown
    /\ isLastQuestion
    /\ Len(saveRequests) < inFlight
    /\ perQuestionDurationsMs' =
          IF questionStartTime # None
          THEN flushed(now - Get(questionStartTime))
          ELSE perQuestionDurationsMs
    /\ isSubmitted' = TRUE
    /\ totalTimeMs' = Some(totalElapsed)
    /\ saveStatus' = "saving"
    /\ saveError' = None
    /\ saveRequests' = saveRequests \o savesIssued(totalElapsed)
    /\ lastOp' = "submit"
    /\ UNCHANGED <<session, isCreating, error, quizConfig, formErrors,
                   effectiveTopic, questions, preparedQuestions,
                   currentQuestionIndex, userAnswers, showAnswers,
                   quizStartTime, questionStartTime, currentQuestionElapsedMs,
                   showResultsPanel, resultDetailPage, genRequests,
                   signOutPending, now, probe>>
    /\ UNCHANGED <<resultsVars, authVars>>

handleSubmitQuiz == handleSubmitQuizWithin(MaxSaves)

\* saveResults after the await: saveResultsToBackend resolved
SaveSucceeds(i) ==
    /\ i \in 1..Len(saveRequests)
    /\ saveRequests' = RemoveAt(saveRequests, i)
    /\ saveStatus' = "success"
    /\ lastOp' = "save:success"
    /\ UNCHANGED <<session, isCreating, error, quizConfig, formErrors,
                   effectiveTopic, questions, preparedQuestions,
                   currentQuestionIndex, userAnswers, isSubmitted, showAnswers,
                   quizStartTime, totalTimeMs, questionStartTime,
                   currentQuestionElapsedMs, perQuestionDurationsMs, saveError,
                   showResultsPanel, resultDetailPage, genRequests,
                   signOutPending, now, probe>>
    /\ UNCHANGED <<resultsVars, authVars>>

\* the messages saveResultsToBackend can throw
SaveErrors == {"500 Internal Server Error", "Failed to fetch"}

\* variant: the catch block records nothing
failedSave_silent(msg) == [saveStatus |-> saveStatus, saveError |-> saveError]

\* the catch block of saveResults: setSaveStatus('error'); setSaveError(...)
failedSave(msg) == [saveStatus |-> "error", saveError |-> Some(msg)]

\* saveResults after the await: saveResultsToBackend threw
SaveFails(i, msg) ==
    /\ i \in 1..Len(saveRequests)
    /\ saveRequests' = RemoveAt(saveRequests, i)
    /\ saveStatus' = failedSave(msg).saveStatus
    /\ saveError' = failedSave(msg).saveError
    /\ lastOp' = "save:failure"
    /\ UNCHANGED <<session, isCreating, error, quizConfig, formErrors,
                   effectiveTopic, questions, preparedQuestions,
                   currentQuestionIndex, userAnswers, isSubmitted, showAnswers,
                   quizStartTime, totalTimeMs, questionStartTime,
                   currentQuestionElapsedMs, perQuestionDurationsMs,
                   showResultsPanel, resultDetailPage, genRequests,
                   signOutPending, now, probe>>
    /\ UNCHANGED <<resultsVars, authVars>>

\* variant: the button is rendered for every question type
showAnswersOffered_anyType == TRUE

\* the "Show Answers" button is rendered: questions?.questionType === 'MCQ'
showAnswersOffered == Get(questions).questionType = "MCQ"

\* onClick={() => setShowAnswers(true)}, rendered for an MCQ set
showAnswersPage ==
    /\ ResultsShown
    /\ showAnswersOffered
    /\ showAnswers' = TRUE
    /\ lastOp' = "showAnswers"
    /\ UNCHANGED <<session, isCreating, error, quizConfig, formErrors,
                   effectiveTopic, questions, preparedQuestions,
                   currentQuestionIndex, userAnswers, isSubmitted,
                   quizStartTime, totalTimeMs, questionStartTime,
                   currentQuestionElapsedMs, perQuestionDurationsMs, saveStatus,
                   saveError, showResultsPanel, resultDetailPage, genRequests,
                   saveRequests, signOutPending, now, probe>>
    /\ UNCHANGED <<resultsVars, authVars>>

\* onClick={() => setShowAnswers(false)} of the answers page
backToResults ==
    /\ AnswersShown
    /\ showAnswers' = FALSE
    /\ lastOp' = "backToResults"
    /\ UNCHANGED <<session, isCreating, error, quizConfig, formErrors,
                   effectiveTopic, questions, preparedQuestions,
                   currentQuestionIndex, userAnswers, isSubmitted,
                   quizStartTime, totalTimeMs, questionStartTime,
                   currentQuestionElapsedMs, perQuestionDurationsMs, saveStatus,
                   saveError, showResultsPanel, resultDetailPage, genRequests,
                   saveRequests, signOutPending, now, probe>>
    /\ UNCHANGED <<resultsVars, authVars>>

\* what "Take Another Quiz" leaves in perQuestionDurationsMs: the onClick
\* has no setPerQuestionDurationsMs call
durationsAfterReset == perQuestionDurationsMs

\* onClick of "Take Another Quiz" (renderResults)
takeAnotherQuiz ==
    /\ ResultsShown
    /\ questions' = None
    /\ isSubmitted' = FALSE
    /\ userAnswers' = EmptyMap
    /\ currentQuestionIndex' = 0
    /\ quizStartTime' = None
    /\ totalTimeMs' = None
    /\ showAnswers' = FALSE
    /\ perQuestionDurationsMs' = durationsAfterReset
    /\ lastOp' = "reset"
    /\ UNCHANGED <<session, isCreating, error, quizConfig, formErrors,
                   effectiveTopic, preparedQuestions, questionStartTime,
                   currentQuestionElapsedMs, saveStatus, saveError,
                   showResultsPanel, resultDetailPage, genRequests,
                   saveRequests, signOutPending, now, probe>>
    /\ UNCHANGED <<resultsVars, authVars>>

\* goHome (Navbar onShowCreate)
goHome ==
    /\ Authenticated
    /\ showResultsPanel' = FALSE
    /\ resultDetailPage' = None
    /\ error' = None
    /\ isSubmitted' = FALSE
    /\ questions' = None
    /\ showAnswers' = FALSE
    /\ currentQuestionIndex' = 0
    /\ lastOp' = "goHome"
    /\ UNCHANGED <<session, isCreating, quizConfig, formErrors, effectiveTopic,
                   preparedQuestions, userAnswers, quizStartTime, totalTimeMs,
                   questionStartTime, currentQuestionElapsedMs,
                   perQuestionDurationsMs, saveStatus, saveError, genRequests,
                   saveRequests, signOutPending, now, probe>>
    /\ UNCHANGED <<resultsVars, authVars>>

(***************************************************************************)
(* Browsing saved results.                                                 *)
(***************************************************************************)
\* the quiz session's state, which the results panel does not write
quizVars == <<isCreating, error, quizConfig, formErrors, effectiveTopic,
              questions, preparedQuestions, currentQuestionIndex, userAnswers,
              isSubmitted, showAnswers, quizStartTime, totalTimeMs,
              questionStartTime, currentQuestionElapsedMs,
              perQuestionDurationsMs, saveStatus, saveError, genRequests,
              saveRequests>>

\* Pages of the results service are numbered 0..MaxPage.
MaxPage == 1
\* loadResultsPage / loadResultDetail calls that may be in flight at once.
MaxResultsOps == 2

\* A session the provider reports without an access token: the case the
\* fallback of getAccessToken (l. 399-402) is written for.
TokenlessSession == [access_token |-> "", user |-> "user-2"]
\* data.session?.access_token of supabaseClient.auth.getSession(); "" stands
\* for undefined
ProviderTokens == {"", "jwt"}

\* (session as any)?.access_token, "" standing for undefined
cachedToken == IF session = None THEN "" ELSE Get(session).access_token

\* the navbar and the results panel are rendered (l. 1034-1152)
ResultsPanelShown == Authenticated /\ showResultsPanel

\* one ResultsListItem per page; the id of a saved result is its number
PageData(page) == << [id |-> page, topic |-> "UPSC : Miscellaneous"] >>
\* the ResultDetail the service returns for an id
SavedResult(id) == [id |-> id, time_ms |-> 61000]

\* A call as it stands after `const token = await getAccessToken()` has run
\* up to its first real await: with a cached token the request is sent, with
\* none the call awaits the provider's getSession().
startedOp(op) ==
    IF cachedToken # ""
    THEN [op EXCEPT !.stage = "fetch", !.accessToken = cachedToken]
    ELSE [op EXCEPT !.stage = "token"]

listOp(page, limit) ==
    [kind |-> "list", page |-> page, limit |-> limit, id |-> 0,
     stage |-> "token", accessToken |-> ""]
detailOp(id) ==
    [kind |-> "detail", page |-> 0, limit |-> 0, id |-> id,
     stage |-> "token", accessToken |-> ""]

\* loadResultsPage(page, limit) up to its first await
loadResultsPage(page, limit) ==
    /\ Len(resultsOps) < MaxResultsOps
    /\ resultsLoading' = TRUE
    /\ resultsError' = None
    /\ resultsOps' = Append(resultsOps, startedOp(listOp(page, limit)))
    /\ UNCHANGED <<results, resultsPage, resultsLimit, resultsHasMore,
                   selectedResult>>

\* openResultsPanel (Navbar onShowResults)
openResultsPanel ==
    /\ Authenticated
    /\ showResultsPanel' = TRUE
    /\ loadResultsPage(0, resultsLimit)
    /\ lastOp' = "openResults"
    /\ UNCHANGED <<session, quizVars, resultDetailPage, signOutPending,
                   authVars, now, probe>>

\* onClick of the panel's Prev button, disabled={resultsPage <= 0 || resultsLoading}
prevResultsPage ==
    /\ ResultsPanelShown
    /\ ~(resultsPage =< 0 \/ resultsLoading)
    /\ loadResultsPage(IF resultsPage - 1 > 0 THEN resultsPage - 1 ELSE 0,
                       resultsLimit)
    /\ lastOp' = "prevPage"
    /\ UNCHANGED <<session, quizVars, showResultsPanel, resultDetailPage,
                   signOutPending, authVars, now, probe>>

\* onClick of the panel's Next button, disabled={!resultsHasMore || resultsLoading}
nextResultsPage ==
    /\ ResultsPanelShown
    /\ ~(~resultsHasMore \/ resultsLoading)
    /\ loadResultsPage(resultsPage + 1, resultsLimit)
    /\ lastOp' = "nextPage"
    /\ UNCHANGED <<session, quizVars, showResultsPanel, resultDetailPage,
                   signOutPending, authVars, now, probe>>

\* loadResultDetail(r.id) up to its first await, r an item of the list shown
loadResultDetail(id) ==
    /\ ResultsPanelShown
    /\ results # None
    /\ \E k \in 1..Len(Get(results)) : Get(results)[k].id = id
    /\ Len(resultsOps) < MaxResultsOps
    /\ resultsLoading' = TRUE
    /\ resultsError' = None
    /\ resultsOps' = Append(resultsOps, startedOp(detailOp(id)))
    /\ lastOp' = "loadDetail"
    /\ UNCHANGED <<session, quizVars, showResultsPanel, resultDetailPage,
                   results, resultsPage, resultsLimit, resultsHasMore,
                   selectedResult, signOutPending, authVars, now, probe>>

\* variant: the token is not checked
tokenMissing_never(token) == FALSE

\* if (!token) throw new Error('Not authenticated')
tokenMissing(token) == token = ""

\* loadResultsPage / loadResultDetail after `await getAccessToken()`, for a
\* call that found no cached token: getSession() resolved with token
TokenLookupCompletes(i, token) ==
    /\ i \in 1..Len(resultsOps)
    /\ resultsOps[i].stage = "token"
    /\ IF tokenMissing(token)
       THEN /\ resultsError' = Some("Not authenticated")
            /\ resultsLoading' = FALSE
            /\ resultsOps' = RemoveAt(resultsOps, i)
       ELSE /\ resultsOps' = [resultsOps EXCEPT ![i].stage = "fetch",
                                                ![i].accessToken = token]
            /\ UNCHANGED <<resultsError, resultsLoading>>
    /\ lastOp' = IF token = "" THEN "tokenLookup:none" ELSE "tokenLookup:token"
    /\ UNCHANGED <<session, quizVars, showResultsPanel, resultDetailPage,
                   results, resultsPage, resultsLimit, resultsHasMore,
                   selectedResult, signOutPending, authVars, now, probe>>

\* loadResultsPage after the await of fetchResultsList, which resolved; the
\* service answers with the page and limit asked for
ListSucceeds(i) ==
    /\ i \in 1..Len(resultsOps)
    /\ resultsOps[i].stage = "fetch"
    /\ resultsOps[i].kind = "list"
    /\ results' = Some(PageData(resultsOps[i].page))
    /\ resultsPage' = resultsOps[i].page
    /\ resultsLimit' = resultsOps[i].limit
    /\ resultsHasMore' = (resultsOps[i].page < MaxPage)
    /\ selectedResult' = None
    /\ resultsLoading' = FALSE
    /\ resultsOps' = RemoveAt(resultsOps, i)
    /\ lastOp' = "list:success"
    /\ UNCHANGED <<session, quizVars, showResultsPanel, resultDetailPage,
                   resultsError, signOutPending, authVars, now, probe>>

\* loadResultDetail after the await of fetchResultById, which resolved
DetailSucceeds(i) ==
    /\ i \in 1..Len(resultsOps)
    /\ resultsOps[i].stage = "fetch"
    /\ resultsOps[i].kind = "detail"
    /\ selectedResult' = Some(SavedResult(resultsOps[i].id))
    /\ resultDetailPage' = Some(SavedResult(resultsOps[i].id))
    /\ showResultsPanel' = FALSE
    /\ resultsLoading' = FALSE
    /\ resultsOps' = RemoveAt(resultsOps, i)
    /\ lastOp' = "detail:success"
    /\ UNCHANGED <<session, quizVars, results, resultsPage, resultsLimit,
                   resultsHasMore, resultsError, signOutPending, authVars,
                   now, probe>>

\* the messages fetchResultsList and fetchResultById can throw
ResultsErrors == {"401 Unauthorized", "Failed to fetch"}

\* variant: the catch block also drops the list loaded before
ResultsFetchFails_clearsList(i, msg) ==
    /\ i \in 1..Len(resultsOps)
    /\ resultsOps[i].stage = "fetch"
    /\ resultsError' = Some(msg)
    /\ resultsLoading' = FALSE
    /\ results' = None
    /\ resultsOps' = RemoveAt(resultsOps, i)
    /\ lastOp' = "results:failure"
    /\ UNCHANGED <<session, quizVars, showResultsPanel, resultDetailPage,
                   resultsPage, resultsLimit, resultsHasMore,
                   selectedResult, signOutPending, authVars, now, probe>>

\* the catch and finally blocks of loadResultsPage / loadResultDetail after
\* the fetch threw
ResultsFetchFails(i, msg) ==
    /\ i \in 1..Len(resultsOps)
    /\ resultsOps[i].stage = "fetch"
    /\ resultsError' = Some(msg)
    /\ resultsLoading' = FALSE
    /\ resultsOps' = RemoveAt(resultsOps, i)
    /\ lastOp' = "results:failure"
    /\ UNCHANGED <<session, quizVars, showResultsPanel, resultDetailPage,
                   results, resultsPage, resultsLimit, resultsHasMore,
                   selectedResult, signOutPending, authVars, now, probe>>

\* onClick={() => setShowResultsPanel(false)} of the panel (l. 1106)
closeResultsPanel ==
    /\ ResultsPanelShown
    /\ showResultsPanel' = FALSE
    /\ lastOp' = "closeResults"
    /\ UNCHANGED <<session, quizVars, resultDetailPage, resultsVars,
                   signOutPending, authVars, now, probe>>

\* "Back to results" of the saved-result page (l. 476)
backToResultsList ==
    /\ Authenticated
    /\ error = None
    /\ resultDetailPage # None
    /\ resultDetailPage' = None
    /\ showResultsPanel' = TRUE
    /\ lastOp' = "backToList"
    /\ UNCHANGED <<session, quizVars, resultsVars, signOutPending, authVars,
                   now, probe>>

(***************************************************************************)
(* Time.                                                                   *)
(***************************************************************************)
\* the clock advances
Tick ==
    /\ now < MaxTime
    /\ now' = now + 1
    /\ lastOp' = "tick"
    /\ UNCHANGED <<session, isCreating, error, quizConfig, formErrors,
                   effectiveTopic, questions, preparedQuestions,
                   currentQuestionIndex, userAnswers, isSubmitted, showAnswers,
                   quizStartTime, totalTimeMs, questionStartTime,
                   currentQuestionElapsedMs, perQuestionDurationsMs, saveStatus,
                   saveError, showResultsPanel, resultDetailPage, genRequests,
                   saveRequests, signOutPending, probe>>
    /\ UNCHANGED <<resultsVars, authVars>>

\* variant: the effect does not test isSubmitted
timerActive_ignoresSubmitted == questions # None /\ questionStartTime # None

\* the interval of the live ticker exists while this holds (useEffect l. 290)
timerActive == questions # None /\ ~isSubmitted /\ questionStartTime # None

\* variant: the interval callback also flushes the elapsed time into the map
timerTick_flushes ==
    /\ timerActive
    /\ currentQuestionElapsedMs' =
          now - (IF TruthyTime(questionStartTime) THEN Get(questionStartTime) ELSE now)
    /\ perQuestionDurationsMs' = flushed(elapsedSinceQuestionStart)
    /\ lastOp' = "timerTick"
    /\ UNCHANGED <<session, isCreating, error, quizConfig, formErrors,
                   effectiveTopic, questions, preparedQuestions,
                   currentQuestionIndex, userAnswers, isSubmitted, showAnswers,
                   quizStartTime, totalTimeMs, questionStartTime,
                   saveStatus, saveError, showResultsPanel, resultDetailPage,
                   genRequests, saveRequests, signOutPending, now, probe>>
    /\ UNCHANGED <<resultsVars, authVars>>

\* the interval callback
timerTick ==
    /\ timerActive
    /\ currentQuestionElapsedMs' =
          now - (IF TruthyTime(questionStartTime) THEN Get(questionStartTime) ELSE now)
    /\ lastOp' = "timerTick"
    /\ UNCHANGED <<session, isCreating, error, quizConfig, formErrors,
                   effectiveTopic, questions, preparedQuestions,
                   currentQuestionIndex, userAnswers, isSubmitted, showAnswers,
                   quizStartTime, totalTimeMs, questionStartTime,
                   perQuestionDurationsMs, saveStatus, saveError,
                   showResultsPanel, resultDetailPage, genRequests,
                   saveRequests, signOutPending, now, probe>>
    /\ UNCHANGED <<resultsVars, authVars>>

(***************************************************************************)
(* Inputs and specifications.                                              *)
(***************************************************************************)
OptA == <<"A", ".", "x">>
OptB == <<"B", ".", "y">>
McqTwo ==
    [questionType |-> "MCQ",
     QuestionArray |-> <<[No |-> 1, Options |-> <<OptA, OptB>>],
                         [No |-> 2, Options |-> <<OptA, OptB>>]>>,
     AnswerArray |-> << <<"A">>, <<"B">> >>]
SubjectiveOne == [questionType |-> "Subjective", QuestionArray |-> << <<"q">> >>]

\* question sets the generation service returns
GeneratedSets == {McqTwo, SubjectiveOne}
\* texts typed into the textarea of a Subjective question
AnswerTexts == { <<"t">> }
\* sessions the identity provider reports
ProviderEvents == {None, Some(ProviderSession)}

\* The quiz session with the clock running: a signed-in user who leaves the
\* form at its defaults and takes quizzes one after another.
Next ==
    \/ AuthStateChange(Some(ProviderSession))
    \/ handleCreateQuiz
    \/ \E i \in 1..Len(genRequests), d \in GeneratedSets : GenerationSucceeds(i, d)
    \/ beginPreparedQuiz
    \/ handleNextQuestion
    \/ handlePrevQuestion
    \/ handleSubmitQuiz
    \/ \E i \in 1..Len(saveRequests) : SaveSucceeds(i)
    \/ \E i \in 1..Len(saveRequests) : SaveFails(i, "Failed to fetch")
    \/ takeAnotherQuiz
    \/ goHome
    \/ Tick
    \/ timerTick

Spec == Init /\ [][Next]_vars

\* texts typed into the form's inputs: <<name, type, value>>
FormInputs ==
    { <<"q_no", "number", v>> : v \in { <<>>, <<"0">>, <<"1">>, <<"2", "0">>,
                                         <<"2", "1">>, <<"-", "3">> } }
    \cup { <<"topic", "text", v>> : v \in { <<>>, <<" ", "G", "k", " ">>,
                  <<"A", "n", "y", " ", "T", "o", "p", "i", "c">> } }
    \cup { <<"exam", "text", <<>> >>, <<"questionType", "select-one", "Subjective">> }

\* Configuring and generating: the form is edited (also while a request is
\* in flight), requests succeed or fail, the user goes home or signs out and
\* the provider signs the user in and out.  The clock stands still.
NextConfig ==
    \/ \E s \in ProviderEvents : AuthStateChange(s)
    \/ handleSignOut
    \/ SignOutCompletes
    \/ \E c \in FormInputs : handleConfigChange(c[1], c[2], c[3])
    \/ handleCreateQuiz
    \/ \E i \in 1..Len(genRequests), d \in GeneratedSets : GenerationSucceeds(i, d)
    \/ \E i \in 1..Len(genRequests), m \in GenerationErrors : GenerationFails(i, m)
    \/ dismissError
    \/ beginPreparedQuiz
    \/ goHome

SpecConfig == Init /\ [][NextConfig]_vars

\* Answering and reviewing: a user answers the questions of the quizzes
\* taken, submits, reads the answers page while the save request completes
\* or fails, starts over, goes home and signs out and in; generation
\* requests succeed or fail.  The form is left at its defaults and the
\* clock stands still.
NextReview ==
    \/ \E s \in ProviderEvents : AuthStateChange(s)
    \/ handleSignOut
    \/ SignOutCompletes
    \/ handleCreateQuiz
    \/ \E i \in 1..Len(genRequests), d \in GeneratedSets : GenerationSucceeds(i, d)
    \/ \E i \in 1..Len(genRequests), m \in GenerationErrors : GenerationFails(i, m)
    \/ dismissError
    \/ beginPreparedQuiz
    \/ \E v \in answerChoices(AnswerTexts) : handleAnswerChange(v)
    \/ handleNextQuestion
    \/ handlePrevQuestion
    \/ handleSubmitQuiz
    \/ \E i \in 1..Len(saveRequests) : SaveSucceeds(i)
    \/ \E i \in 1..Len(saveRequests), m \in SaveErrors : SaveFails(i, m)
    \/ showAnswersPage
    \/ backToResults
    \/ takeAnotherQuiz
    \/ goHome

SpecReview == Init /\ [][NextReview]_vars

\* One quiz taken with the clock running: a signed-in user generates a
\* question set, starts, answers, moves between the questions and submits,
\* and the save request completes or fails.
NextSession ==
    \/ AuthStateChange(Some(ProviderSession))
    \/ handleCreateQuiz
    \/ \E i \in 1..Len(genRequests), d \in GeneratedSets : GenerationSucceeds(i, d)
    \/ beginPreparedQuiz
    \/ \E v \in answerChoices(AnswerTexts) : handleAnswerChange(v)
    \/ handleNextQuestion
    \/ handlePrevQuestion
    \/ handleSubmitQuiz
    \/ \E i \in 1..Len(saveRequests) : SaveSucceeds(i)
    \/ \E i \in 1..Len(saveRequests), m \in SaveErrors : SaveFails(i, m)
    \/ Tick
    \/ timerTick

SpecSession == Init /\ [][NextSession]_vars

\* question sets with an empty QuestionArray, which the service may return
\* with status 'success' as well: the response is stored unvalidated
EmptyMcq == [questionType |-> "MCQ", QuestionArray |-> <<>>, AnswerArray |-> <<>>]
EmptySubjective == [questionType |-> "Subjective", QuestionArray |-> <<>>]
ReturnedSets == GeneratedSets \cup {EmptyMcq, EmptySubjective}

\* renderQuiz throws: McqQuestionDisplay reads question.Q and
\* question.Options of QuestionArray[currentQuestionIndex], which is
\* undefined when the index is not one of the array (SubjectiveQuestionDisplay
\* hands the undefined text to renderRichQuestionText, which returns null)
renderThrows ==
    /\ QuizShown
    /\ Get(questions).questionType = "MCQ"
    /\ currentQuestionIndex >= totalQuestions(Get(questions))

\* The component is mounted: no render has thrown.  An error thrown while
\* rendering unmounts the application, after which no handler can be
\* invoked.
mounted == ~renderThrows

\* The whole application with the clock standing still: a signed-in user
\* generates quizzes (the service answers with any question set or fails),
\* dismisses errors, takes and submits quizzes, reads the answers, starts
\* over, goes home, and opens the results panel and saved results at any
\* moment.
NextRecovery ==
    \/ mounted /\ AuthStateChange(Some(ProviderSession))
    \/ mounted /\ handleCreateQuiz
    \/ mounted /\ (\E i \in 1..Len(genRequests), d \in ReturnedSets : GenerationSucceeds(i, d))
    \/ mounted /\ (\E i \in 1..Len(genRequests) : GenerationFails(i, "Failed to fetch"))
    \/ mounted /\ dismissError
    \/ mounted /\ beginPreparedQuiz
    \/ mounted /\ handleNextQuestion
    \/ mounted /\ handleSubmitQuiz
    \/ mounted /\ (\E i \in 1..Len(saveRequests) : SaveSucceeds(i))
    \/ mounted /\ showAnswersPage
    \/ mounted /\ backToResults
    \/ mounted /\ takeAnotherQuiz
    \/ mounted /\ goHome
    \/ mounted /\ openResultsPanel
    \/ mounted /\ (\E id \in 0..MaxPage : loadResultDetail(id))
    \/ mounted /\ (\E i \in 1..Len(resultsOps) : ListSucceeds(i))
    \/ mounted /\ (\E i \in 1..Len(resultsOps) : DetailSucceeds(i))
    \/ mounted /\ (\E i \in 1..Len(resultsOps) : ResultsFetchFails(i, "Failed to fetch"))
    \/ mounted /\ closeResultsPanel
    \/ mounted /\ backToResultsList

SpecRecovery == Init /\ [][NextRecovery]_vars

\* Generating across the ways out of the setup form: while requests are
\* answered or fail, the user goes home, starts the prepared quiz, signs out
\* and in again (the provider reports sessions on its own as well), and
\* opens and closes the results panel.  The form is left at its defaults
\* and the clock stands still.
NextGeneration ==
    \/ \E s \in ProviderEvents : AuthStateChange(s)
    \/ handleSignOut
    \/ SignOutCompletes
    \/ handleCreateQuiz
    \/ \E i \in 1..Len(genRequests), d \in GeneratedSets : GenerationSucceeds(i, d)
    \/ \E i \in 1..Len(genRequests), m \in GenerationErrors : GenerationFails(i, m)
    \/ dismissError
    \/ beginPreparedQuiz
    \/ goHome
    \/ openResultsPanel
    \/ \E i \in 1..Len(resultsOps) : ListSucceeds(i)
    \/ closeResultsPanel

SpecGeneration == Init /\ [][NextGeneration]_vars

\* Signing out of a quiz: the provider signs users in, and a session ends
\* only by the user's sign-out; in between the user generates quizzes,
\* starts them, answers, moves on, submits and goes home, and generation
\* and save requests complete whenever they do, also after the sign-out.
\* The form is left at its defaults and the clock stands still.
NextSignOut ==
    \/ AuthStateChange(Some(ProviderSession))
    \/ handleSignOut
    \/ SignOutCompletes
    \/ handleCreateQuiz
    \/ \E i \in 1..Len(genRequests), d \in GeneratedSets : GenerationSucceeds(i, d)
    \/ beginPreparedQuiz
    \/ \E v \in answerChoices(AnswerTexts) : handleAnswerChange(v)
    \/ handleNextQuestion
    \/ handleSubmitQuiz
    \/ \E i \in 1..Len(saveRequests) : SaveSucceeds(i)
    \/ goHome

SpecSignOut == Init /\ [][NextSignOut]_vars

\* exams typed into the exam input around a quiz
ExamEdits == { <<>>, S_UPSC, <<"S", "S", "C">> }

\* the configurations the form holds when only the exam input is edited
ExamConfigs == { [DefaultConfig EXCEPT !.exam = e] : e \in ExamEdits }

\* Editing the exam around a quiz: signed in, the user types into the exam
\* input whenever the setup form is on the screen (also while a request is
\* in flight), generates quizzes, takes them to the end and submits; save
\* requests succeed and the user starts over.  The clock stands still.
NextSavedTopic ==
    \/ AuthStateChange(Some(ProviderSession))
    \/ \E e \in ExamEdits : handleConfigChange("exam", "text", e)
    \/ handleCreateQuiz
    \/ \E i \in 1..Len(genRequests), d \in GeneratedSets : GenerationSucceeds(i, d)
    \/ beginPreparedQuiz
    \/ handleNextQuestion
    \/ handleSubmitQuiz
    \/ \E i \in 1..Len(saveRequests) : SaveSucceeds(i)
    \/ takeAnotherQuiz
    \/ goHome

SpecSavedTopic == Init /\ [][NextSavedTopic]_vars

\* a click on the Next button, which renderQuiz shows when the question is
\* not the last one
pressNext ==
    /\ mounted
    /\ QuizShown
    /\ forwardAction = "next"
    /\ handleNextQuestion

\* A user who only moves forward: signed in, the user generates a quiz
\* (the service answers with any question set), starts it, answers, and
\* presses Next as long as the screen offers it, while the clock runs.  The
\* Next button is pressed again and again: weak fairness of pressNext.
NextNavigate ==
    \/ AuthStateChange(Some(ProviderSession))
    \/ handleCreateQuiz
    \/ \E i \in 1..Len(genRequests), d \in ReturnedSets : GenerationSucceeds(i, d)
    \/ beginPreparedQuiz
    \/ mounted /\ (\E v \in answerChoices(AnswerTexts) : handleAnswerChange(v))
    \/ pressNext
    \/ Tick
    \/ timerTick

SpecNavigate == Init /\ [][NextNavigate]_vars /\ WF_vars(pressNext)

\* Save requests that may be in flight at once when quizzes are submitted
\* one after another without waiting for the responses.
MaxOverlappingSaves == 2

\* Quizzes submitted one after another: a signed-in user takes a quiz,
\* answers, submits, starts over and submits the next quiz while earlier
\* save requests are still in flight; the responses arrive in any order.
\* The clock stands still.
NextSaves ==
    \/ AuthStateChange(Some(ProviderSession))
    \/ handleCreateQuiz
    \/ \E i \in 1..Len(genRequests), d \in GeneratedSets : GenerationSucceeds(i, d)
    \/ beginPreparedQuiz
    \/ \E v \in answerChoices(AnswerTexts) : handleAnswerChange(v)
    \/ handleNextQuestion
    \/ handlePrevQuestion
    \/ handleSubmitQuizWithin(MaxOverlappingSaves)
    \/ \E i \in 1..Len(saveRequests) : SaveSucceeds(i)
    \/ \E i \in 1..Len(saveRequests), m \in SaveErrors : SaveFails(i, m)
    \/ takeAnotherQuiz
    \/ goHome

SpecSaves == Init /\ [][NextSaves]_vars

\* The live ticker and the ways out of a quiz: with the clock running a user
\* starts quizzes, moves forward, submits, goes home and signs out, and the
\* provider signs the user in and out.
NextTimer ==
    \/ \E s \in ProviderEvents : AuthStateChange(s)
    \/ handleSignOut
    \/ SignOutCompletes
    \/ handleCreateQuiz
    \/ \E i \in 1..Len(genRequests), d \in GeneratedSets : GenerationSucceeds(i, d)
    \/ beginPreparedQuiz
    \/ handleNextQuestion
    \/ handleSubmitQuiz
    \/ \E i \in 1..Len(saveRequests) : SaveSucceeds(i)
    \/ goHome
    \/ Tick
    \/ timerTick

SpecTimer == Init /\ [][NextTimer]_vars

\* sessions the identity provider reports to a user who browses results
ResultsProviderEvents == {Some(ProviderSession), Some(TokenlessSession)}

\* Browsing saved results: a signed-in user opens the panel, pages through
\* the list, opens a saved result and goes back, while the provider replaces
\* the session; calls find a cached token or ask the provider for one, and
\* the results service answers or fails.
NextResults ==
    \/ \E s \in ResultsProviderEvents : AuthStateChange(s)
    \/ openResultsPanel
    \/ prevResultsPage
    \/ nextResultsPage
    \/ \E id \in 0..MaxPage : loadResultDetail(id)
    \/ \E i \in 1..Len(resultsOps), t \in ProviderTokens : TokenLookupCompletes(i, t)
    \/ \E i \in 1..Len(resultsOps) : ListSucceeds(i)
    \/ \E i \in 1..Len(resultsOps) : DetailSucceeds(i)
    \/ \E i \in 1..Len(resultsOps), m \in ResultsErrors : ResultsFetchFails(i, m)
    \/ closeResultsPanel
    \/ backToResultsList
    \/ goHome

SpecResults == Init /\ [][NextResults]_vars

\* texts typed into the auth card
AuthEmails == {"", adminEmail, "user@example.com"}
AuthPasswords == {"", adminPassword, "secret"}
AuthNames == { <<>>, <<" ">>, <<"N">> }

\* Signing in: the auth card is filled in, in either mode; the admin pair
\* signs in locally, other calls await the provider, which answers or fails
\* and reports sessions; a signed-in user signs out.
NextAuth ==
    \/ \E v \in AuthEmails : setAuthEmail(v)
    \/ \E v \in AuthPasswords : setAuthPassword(v)
    \/ \E v \in AuthNames : setAuthName(v)
    \/ \E m \in {"signIn", "signUp"} : setAuthMode(m)
    \/ handleEmailAuth
    \/ \E i \in 1..Len(authCalls) : AuthCallSucceeds(i)
    \/ \E i \in 1..Len(authCalls), m \in AuthErrors : AuthCallFails(i, m)
    \/ \E s \in ProviderEvents : AuthStateChange(s)
    \/ handleSignOut
    \/ SignOutCompletes

SpecAuth == Init /\ [][NextAuth]_vars

(***************************************************************************)
(* The score as a function of the question set and the AnswerMap: the      *)
(* results screen of a submitted quiz, for every set and every AnswerMap   *)
(* over its indices.                                                       *)
(***************************************************************************)
ScoreLabels == { <<>>, <<"A">>, <<"B">> }
ScoreAnswers == { <<>>, <<"A">>, OptA, OptB }
McqSetsOf(n) ==
    { [questionType |-> "MCQ",
       QuestionArray |-> [j \in 1..n |-> [No |-> j, Options |-> <<OptA, OptB>>]],
       AnswerArray |-> key] : key \in [1..n -> ScoreLabels] }
SubjectiveSetOf(n) ==
    [questionType |-> "Subjective", QuestionArray |-> [j \in 1..n |-> <<"q">>]]
ScoreSets ==
    UNION { McqSetsOf(n) \cup {SubjectiveSetOf(n)} : n \in 0..MaxScoreQuestions }
AnswerMapsOf(qs) ==
    UNION { [D -> ScoreAnswers] : D \in SUBSET (0..(totalQuestions(qs) - 1)) }

InitScore ==
    /\ session = Some(ProviderSession)
    /\ isCreating = FALSE
    /\ error = None
    /\ quizConfig = DefaultConfig
    /\ formErrors = EmptyMap
    /\ effectiveTopic = resolveTopic(DefaultConfig)
    /\ \E qs \in ScoreSets :
          /\ questions = Some(qs)
          /\ userAnswers \in AnswerMapsOf(qs)
          /\ currentQuestionIndex =
                IF totalQuestions(qs) = 0 THEN 0 ELSE totalQuestions(qs) - 1
    /\ preparedQuestions = None
    /\ isSubmitted = TRUE
    /\ showAnswers = FALSE
    /\ quizStartTime = Some(1)
    /\ totalTimeMs = Some(0)
    /\ questionStartTime = None
    /\ currentQuestionElapsedMs = 0
    /\ perQuestionDurationsMs = EmptyMap
    /\ saveStatus = "success"
    /\ saveError = None
    /\ showResultsPanel = FALSE
    /\ resultDetailPage = None
    /\ genRequests = <<>>
    /\ saveRequests = <<>>
    /\ signOutPending = 0
    /\ PanelInit
    /\ AuthFormInit
    /\ now = 1
    /\ lastOp = "init"
    /\ probe = None

\* calculateScore() evaluated on the rendered state (l. 332, l. 787)
applyCalculateScore ==
    /\ ResultsShown
    /\ probe' = Some([fn |-> "calculateScore",
                      value |-> calculateScore(questions, userAnswers)])
    /\ lastOp' = "calculateScore"
    /\ UNCHANGED <<session, isCreating, error, quizConfig, formErrors,
                   effectiveTopic, questions, preparedQuestions,
                   currentQuestionIndex, userAnswers, isSubmitted, showAnswers,
                   quizStartTime, totalTimeMs, questionStartTime,
                   currentQuestionElapsedMs, perQuestionDurationsMs, saveStatus,
                   saveError, showResultsPanel, resultDetailPage, genRequests,
                   saveRequests, signOutPending, now>>
    /\ UNCHANGED <<resultsVars, authVars>>

NextScore == applyCalculateScore

SpecScore == InitScore /\ [][NextScore]_vars

(***************************************************************************)
(* The resolved topic as a function of the form's topic and exam: a form   *)
(* holding every topic and exam text of the sets below, on which           *)
(* resolveTopic is evaluated as handleCreateQuiz and saveResults do.       *)
(***************************************************************************)
\* texts typed into the topic input
TopicTexts ==
    { <<>>, <<" ">>, <<"G","k">>, <<" ","G","k"," ">>, <<"G"," ","k">>,
      <<"\t","G","k","\n">>, <<"a","n","y"," ","t","o","p","i","c">>,
      <<"A","n","y"," ","T","o","p","i","c">>,
      <<" ","A","N","Y"," ","T","O","P","I","C"," ">>,
      <<"a","n","y","t","o","p","i","c">>,
      <<"a","n","y"," "," ","t","o","p","i","c">>,
      <<"m","i","s","c","e","l","l","a","n","e","o","u","s">>,
      <<"M","i","s","c","e","l","l","a","n","e","o","u","s">>,
      <<" ","M","I","S","C","E","L","L","A","N","E","O","U","S">>,
      <<"m","i","s","c","e","l","l","a","n","i","o","u","s">>,
      <<"M","i","s","c","e","l","l","a","n","i","o","u","s"," ">>,
      <<"m","i","s","c">>, <<"M","o","n","s","o","o","n">> }
\* texts typed into the exam input
ExamTexts ==
    { <<>>, <<" ">>, <<"U","P","S","C">>, <<" ","U","P","S","C"," ">>,
      <<"U"," ","P">>, <<"\t","S","S","C">> }

InitTopic ==
    /\ session = Some(ProviderSession)
    /\ isCreating = FALSE
    /\ error = None
    /\ \E t \in TopicTexts, e \in ExamTexts :
          quizConfig = [DefaultConfig EXCEPT !.topic = t, !.exam = e]
    /\ formErrors = EmptyMap
    /\ effectiveTopic = S_Miscellaneous
    /\ questions = None
    /\ preparedQuestions = None
    /\ currentQuestionIndex = 0
    /\ userAnswers = EmptyMap
    /\ isSubmitted = FALSE
    /\ showAnswers = FALSE
    /\ quizStartTime = None
    /\ totalTimeMs = None
    /\ questionStartTime = None
    /\ currentQuestionElapsedMs = 0
    /\ perQuestionDurationsMs = EmptyMap
    /\ saveStatus = "idle"
    /\ saveError = None
    /\ showResultsPanel = FALSE
    /\ resultDetailPage = None
    /\ genRequests = <<>>
    /\ saveRequests = <<>>
    /\ signOutPending = 0
    /\ PanelInit
    /\ AuthFormInit
    /\ now = 1
    /\ lastOp = "init"
    /\ probe = None

\* const resolvedTopic = resolveTopic(quizConfig) (l. 177)
applyResolveTopic ==
    /\ SetupFormShown
    /\ probe' = Some([fn |-> "resolveTopic", value |-> resolveTopic(quizConfig)])
    /\ lastOp' = "resolveTopic"
    /\ UNCHANGED <<session, isCreating, error, quizConfig, formErrors,
                   effectiveTopic, questions, preparedQuestions,
                   currentQuestionIndex, userAnswers, isSubmitted, showAnswers,
                   quizStartTime, totalTimeMs, questionStartTime,
                   currentQuestionElapsedMs, perQuestionDurationsMs, saveStatus,
                   saveError, showResultsPanel, resultDetailPage, genRequests,
                   saveRequests, signOutPending, now>>
    /\ UNCHANGED <<resultsVars, authVars>>

NextTopic == applyResolveTopic

SpecTopic == InitTopic /\ [][NextTopic]_vars

(***************************************************************************)
(* The formatted duration as a function of the milliseconds: the page of a *)
(* saved result whose time_ms is any value of the set below, on which      *)
(* formatDuration is evaluated as renderSavedResultPage does.              *)
(***************************************************************************)
\* time_ms of the saved results the results service returns
SavedTimes ==
    { m * 60000 + sec * 1000 + r :
        m \in {0, 1, 9, 10, 59, 60, 61, 99, 100, 1000},
        sec \in {0, 1, 9, 10, 59},
        r \in {0, 1, 999} }
    \cup {-60001, -60000, -1001, -1000, -999, -500, -1}

InitDuration ==
    /\ session = Some(ProviderSession)
    /\ isCreating = FALSE
    /\ error = None
    /\ quizConfig = DefaultConfig
    /\ formErrors = EmptyMap
    /\ effectiveTopic = S_Miscellaneous
    /\ questions = None
    /\ preparedQuestions = None
    /\ currentQuestionIndex = 0
    /\ userAnswers = EmptyMap
    /\ isSubmitted = FALSE
    /\ showAnswers = FALSE
    /\ quizStartTime = None
    /\ totalTimeMs = None
    /\ questionStartTime = None
    /\ currentQuestionElapsedMs = 0
    /\ perQuestionDurationsMs = EmptyMap
    /\ saveStatus = "idle"
    /\ saveError = None
    /\ showResultsPanel = FALSE
    /\ \E ms \in SavedTimes : resultDetailPage = Some([id |-> 0, time_ms |-> ms])
    /\ genRequests = <<>>
    /\ saveRequests = <<>>
    /\ signOutPending = 0
    /\ PanelInit
    /\ AuthFormInit
    /\ now = 1
    /\ lastOp = "init"
    /\ probe = None

\* the saved-result page is rendered (l. 1084)
SavedResultShown == Authenticated /\ error = None /\ resultDetailPage # None

\* formatDuration(detail.time_ms) (l. 486)
applyFormatDuration ==
    /\ SavedResultShown
    /\ probe' = Some([fn |-> "formatDuration",
                      value |-> formatDuration(Get(resultDetailPage).time_ms)])
    /\ lastOp' = "formatDuration"
    /\ UNCHANGED <<session, isCreating, error, quizConfig, formErrors,
                   effectiveTopic, questions, preparedQuestions,
                   currentQuestionIndex, userAnswers, isSubmitted, showAnswers,
                   quizStartTime, totalTimeMs, questionStartTime,
                   currentQuestionElapsedMs, perQuestionDurationsMs, saveStatus,
                   saveError, showResultsPanel, resultDetailPage, genRequests,
                   saveRequests, signOutPending, now>>
    /\ UNCHANGED <<resultsVars, authVars>>

NextDuration == applyFormatDuration

SpecDuration == InitDuration /\ [][NextDuration]_vars

(***************************************************************************)
(* Properties of the timing bookkeeping and of navigation (Spec).          *)
(***************************************************************************)
\* C1: once a quiz is submitted, the per-question durations add up to
\* totalTimeMs, the time from start to submit.
C1_DurationsSumToTotal ==
    lastOp = "submit" => SumMap(perQuestionDurationsMs) = Get(totalTimeMs)

\* C2: "Take Another Quiz" leaves the setup form with no active and no
\* prepared question set, an empty AnswerMap and empty per-question durations.
C2_ResetDiscardsAll ==
    lastOp = "reset" =>
        /\ SetupFormShown
        /\ questions = None
        /\ preparedQuestions = None
        /\ userAnswers = EmptyMap
        /\ perQuestionDurationsMs = EmptyMap

\* a step of handleNextQuestion / handlePrevQuestion
NextStep == lastOp' \in {"next:moved", "next:bound"}
PrevStep == lastOp' \in {"prev:moved", "prev:bound"}
AtLastIndex == currentQuestionIndex >= totalQuestions(Get(questions)) - 1

\* C3: navigate-next on the last question and navigate-prev on the first
\* change neither the index, the durations, the question's timing origin nor
\* the answers (nor anything else of the session).
C3_NavigationBoundsNoOp ==
    [][ ((NextStep /\ AtLastIndex) \/ (PrevStep /\ currentQuestionIndex = 0))
        => UNCHANGED <<currentQuestionIndex, perQuestionDurationsMs,
                       questionStartTime, userAnswers, questions, isSubmitted,
                       quizStartTime, totalTimeMs, currentQuestionElapsedMs,
                       saveRequests, saveStatus>> ]_vars

C3_Witness ==
    \/ /\ lastOp = "next:bound"
       /\ currentQuestionIndex = totalQuestions(Get(questions)) - 1
       /\ currentQuestionIndex > 0
       /\ perQuestionDurationsMs # EmptyMap
    \/ /\ lastOp = "prev:bound"
       /\ currentQuestionIndex = 0
       /\ totalQuestions(Get(questions)) > 1

\* C7: submit marks the quiz submitted, sets totalTimeMs to the time since
\* quizStartTime and sends one save request carrying it; a submitted quiz is
\* not submitted again and no other step sends a save request.
C7_SubmitSavesOnce ==
    [][ IF lastOp' = "submit"
        THEN /\ ~isSubmitted
             /\ isSubmitted'
             /\ quizStartTime # None
             /\ totalTimeMs' = Some(now - Get(quizStartTime))
             /\ Len(saveRequests') = Len(saveRequests) + 1
             /\ saveRequests'[Len(saveRequests')].timeMs = now - Get(quizStartTime)
             /\ saveRequests'[Len(saveRequests')].questions = Get(questions)
             /\ SubSeq(saveRequests', 1, Len(saveRequests)) = saveRequests
        ELSE Len(saveRequests') =< Len(saveRequests) ]_vars

C7_Witness ==
    /\ lastOp = "save:failure"
    /\ isSubmitted
    /\ saveRequests = <<>>
    /\ totalTimeMs # None
    /\ Get(totalTimeMs) > 0

\* C10: right after start, quizStartTime and questionStartTime both hold
\* the time of the start.
C10_StartStampsBothOrigins ==
    lastOp = "begin" =>
        /\ quizStartTime = Some(now)
        /\ questionStartTime = Some(now)

(***************************************************************************)
(* Properties of configuring and generating (SpecConfig).                  *)
(***************************************************************************)
\* a step of handleCreateQuiz, and the form's question count being in 1..20
CreateStep == lastOp' \in {"create:issued", "create:invalid"}
CountInRange ==
    /\ quizConfig.q_no # NaN
    /\ quizConfig.q_no[1] \in 1..20

\* C4: submitting the form with a question count outside 1..20 (NaN
\* included) sets the q_no field error, sends no generation request and
\* leaves the setup form shown with isCreating false.
C4_InvalidCountBlocksRequest ==
    [][ (CreateStep /\ ~CountInRange)
        => /\ "q_no" \in DOMAIN formErrors'
           /\ genRequests' = genRequests
           /\ ~isCreating'
           /\ SetupFormShown' ]_vars

C4_Witness ==
    /\ lastOp = "create:invalid"
    /\ quizConfig.q_no \in {NaN, Num(0), Num(21), Num(-3)}
    /\ "q_no" \in DOMAIN formErrors
    /\ genRequests = <<>>

\* C5: submitting the form with a question count in 1..20 sets no field
\* error, sets isCreating and sends exactly one generation request, whose
\* body is the form as it is at that moment with topic replaced by the
\* resolved topic; editing the form leaves the requests in flight as sent.
C5_ValidCountIssuesOneRequest ==
    [][ /\ (CreateStep /\ CountInRange)
           => /\ formErrors' = EmptyMap
              /\ isCreating'
              /\ Len(genRequests') = Len(genRequests) + 1
              /\ SubSeq(genRequests', 1, Len(genRequests)) = genRequests
              /\ genRequests'[Len(genRequests')].body =
                    [quizConfig EXCEPT !.topic = resolveTopic(quizConfig)]
        /\ lastOp' = "configChange" => genRequests' = genRequests ]_vars

C5_Witness ==
    /\ lastOp = "configChange"
    /\ Len(genRequests) = 1
    /\ genRequests[1].body.topic # genRequests[1].quizConfig.topic
    /\ quizConfig.q_no # genRequests[1].body.q_no
    /\ quizConfig.exam # genRequests[1].body.exam

\* a step that delivers the failure of generation request 1
FailureStep == lastOp' = "generation:failure" /\ Len(genRequests) = 1

C9_StaleResponseDiscarded ==
    [][ (lastOp \in {"goHome", "signOut:done"} /\ genRequests # <<>>
         /\ lastOp' = "generation:success")
        => preparedQuestions' = None ]_vars

(***************************************************************************)
(* Properties of the score (SpecScore).                                    *)
(***************************************************************************)
IsPrefixOf(p, str) == Len(p) =< Len(str) /\ \A j \in 1..Len(p) : str[j] = p[j]
ScoreComputed == probe # None /\ Get(probe).fn = "calculateScore"
\* indices with an entry that starts with the key's label
MatchingIndices ==
    { i \in 0..(totalQuestions(Get(questions)) - 1) :
        /\ i \in DOMAIN userAnswers
        /\ IsPrefixOf(Get(questions).AnswerArray[i + 1], userAnswers[i]) }

C11_StartMovesPreparedToActive ==
    [][ /\ lastOp' = "begin"
           => /\ preparedQuestions # None
              /\ questions' = preparedQuestions
              /\ preparedQuestions' = None
              /\ currentQuestionIndex' = 0
              /\ userAnswers' = EmptyMap
              /\ perQuestionDurationsMs' = EmptyMap
              /\ ~isSubmitted'
              /\ QuizShown'
        /\ lastOp' = "begin:none"
           => /\ preparedQuestions = None
              /\ UNCHANGED <<questions, preparedQuestions, currentQuestionIndex,
                             userAnswers, perQuestionDurationsMs, isSubmitted,
                             quizStartTime, questionStartTime, totalTimeMs,
                             currentQuestionElapsedMs, isCreating, error,
                             genRequests, saveRequests, saveStatus>> ]_vars

\* a later quiz has started over the durations left by the previous one
C11_Witness ==
    /\ lastOp = "begin"
    /\ questions = Some(McqTwo)
    /\ preparedQuestions = None
    /\ perQuestionDurationsMs = EmptyMap
    /\ questionStartTime # None
    /\ now > 1

\* the timing state of the session
timingState ==
    <<quizStartTime, questionStartTime, perQuestionDurationsMs, totalTimeMs>>

\* C12: a successful generation response stores the returned question set
\* as the prepared set and ends isCreating; the active set stays absent, the
\* timing state is not modified and a signed-in user is shown the ready
\* screen.
C12_SuccessStoresPreparedOnly ==
    [][ lastOp' = "generation:success"
        => /\ preparedQuestions' # None
           /\ Get(preparedQuestions') \in GeneratedSets
           /\ questions = None /\ questions' = None
           /\ ~isCreating'
           /\ UNCHANGED timingState
           /\ UNCHANGED <<currentQuestionElapsedMs, userAnswers,
                          currentQuestionIndex, isSubmitted>>
           /\ Authenticated => ReadyScreenShown' ]_vars

\* the response of a later quiz arrives over timing state left by the
\* previous one
C12_Witness ==
    /\ lastOp = "generation:success"
    /\ preparedQuestions # None
    /\ questionStartTime # None
    /\ perQuestionDurationsMs # EmptyMap
    /\ now > 1

\* C13: go-home leaves the setup form shown with no active and no prepared
\* question set, an empty AnswerMap and no timing state.
C13_GoHomeDiscardsAll ==
    lastOp = "goHome" =>
        /\ SetupFormShown
        /\ questions = None
        /\ preparedQuestions = None
        /\ userAnswers = EmptyMap
        /\ quizStartTime = None
        /\ questionStartTime = None
        /\ perQuestionDurationsMs = EmptyMap
        /\ totalTimeMs = None

(***************************************************************************)
(* Properties of the save response (SpecReview).                           *)
(***************************************************************************)
\* C14: a failed save sets the save status to 'error' and the save error
\* message and changes nothing else: the screen shown (results or answers
\* page), the question sets, the AnswerMap, the score, totalTimeMs and the
\* rest of the session are as before, so show-answers and reset stay
\* available.
C14_SaveFailureChangesStatusOnly ==
    [][ lastOp' = "save:failure"
        => /\ saveStatus' = "error"
           /\ saveError' # None
           /\ Get(saveError') \in SaveErrors
           /\ UNCHANGED <<session, isCreating, error, quizConfig, formErrors,
                          effectiveTopic, questions, preparedQuestions,
                          currentQuestionIndex, userAnswers, isSubmitted,
                          showAnswers, quizStartTime, totalTimeMs,
                          questionStartTime, currentQuestionElapsedMs,
                          perQuestionDurationsMs, showResultsPanel,
                          resultDetailPage, genRequests, resultsVars,
                          authVars>>
           /\ calculateScore(questions', userAnswers') =
                 calculateScore(questions, userAnswers)
           /\ ResultsShown' = ResultsShown
           /\ AnswersShown' = AnswersShown
           /\ ENABLED showAnswersPage => (ENABLED showAnswersPage)'
           /\ ENABLED takeAnotherQuiz => (ENABLED takeAnotherQuiz)' ]_vars

\* the failure arrives while the answers page of a scored quiz is read
C14_Witness ==
    /\ lastOp = "save:failure"
    /\ AnswersShown
    /\ saveStatus = "error"
    /\ saveError = Some("500 Internal Server Error")
    /\ calculateScore(questions, userAnswers) = 2
    /\ totalTimeMs # None

(***************************************************************************)
(* Properties of the resolved topic (SpecTopic).                           *)
(***************************************************************************)
ResolveComputed == probe # None /\ Get(probe).fn = "resolveTopic"
\* str without its leading and trailing whitespace
Stripped(str) ==
    LET inked == { i \in 1..Len(str) : str[i] \notin Whitespace }
    IN  IF inked = {} THEN <<>>
        ELSE SubSeq(str, CHOOSE i \in inked : \A j \in inked : i =< j,
                         CHOOSE i \in inked : \A j \in inked : i >= j)
EqualIgnoringCase(a, b) ==
    Len(a) = Len(b) /\ \A i \in 1..Len(a) : LowerChar(a[i]) = LowerChar(b[i])
\* the trimmed topic is empty or one of the sentinels
IsSentinelTopic(topic) ==
    \/ Stripped(topic) = <<>>
    \/ \E w \in {S_AnyTopic, S_miscellaneous, S_miscellanious} :
          EqualIgnoringCase(Stripped(topic), w)

\* C17 as stated: for a sentinel topic the result is "Miscellaneous related
\* to " followed by the exam when the exam is non-empty and "Miscellaneous"
\* when it is empty; for any other topic it is the trimmed topic.
C17_ResolvedTopicOfExam ==
    ResolveComputed =>
        Get(probe).value =
            IF IsSentinelTopic(quizConfig.topic)
            THEN IF quizConfig.exam # <<>>
                 THEN S_Miscellaneous \o S_RelatedTo \o quizConfig.exam
                 ELSE S_Miscellaneous
            ELSE Stripped(quizConfig.topic)

\* C17 amended: ... followed by the trimmed exam when the trimmed exam is
\* non-empty and "Miscellaneous" when the trimmed exam is empty ...
C17_ResolvedTopicOfTrimmedExam ==
    ResolveComputed =>
        Get(probe).value =
            IF IsSentinelTopic(quizConfig.topic)
            THEN IF Stripped(quizConfig.exam) # <<>>
                 THEN S_Miscellaneous \o S_RelatedTo \o Stripped(quizConfig.exam)
                 ELSE S_Miscellaneous
            ELSE Stripped(quizConfig.topic)

C17_Witness ==
    /\ ResolveComputed
    /\ quizConfig.topic = <<" ","A","N","Y"," ","T","O","P","I","C"," ">>
    /\ quizConfig.exam = <<" ","U","P","S","C"," ">>
    /\ Get(probe).value = S_Miscellaneous \o S_RelatedTo \o S_UPSC

(***************************************************************************)
(* Properties of the formatted duration (SpecDuration).                    *)
(***************************************************************************)
DurationFormatted == probe # None /\ Get(probe).fn = "formatDuration"
RECURSIVE DecimalValue(_)
\* the number a string of digits denotes
DecimalValue(str) ==
    IF str = <<>> THEN 0
    ELSE DecimalValue(SubSeq(str, 1, Len(str) - 1)) * 10 + DigitVal(str[Len(str)])
\* str is the decimal numeral of n, zero-padded to two digits and no further
IsTwoDigitNumeral(str, n) ==
    /\ Len(str) >= 2
    /\ \A i \in 1..Len(str) : IsDigit(str[i])
    /\ DecimalValue(str) = n
    /\ Len(str) > 2 => str[1] # "0"

\* C18: the formatted duration of ms milliseconds, negative ms counting as
\* 0, is MM:SS with MM the numeral of floor(ms / 60000), not wrapped at 59,
\* and SS the numeral of floor(ms / 1000) mod 60, each zero-padded to two
\* digits; 0 gives 00:00, 61000 gives 01:01, -500 gives 00:00 and 3661000
\* gives 61:01.
C18_FormatIsPaddedMinutesSeconds ==
    DurationFormatted =>
        LET ms == Get(resultDetailPage).time_ms
            clamped == IF ms < 0 THEN 0 ELSE ms
            out == Get(probe).value
        IN  /\ \E k \in 1..Len(out) :
                  /\ out[k] = ":"
                  /\ IsTwoDigitNumeral(SubSeq(out, 1, k - 1), clamped \div 60000)
                  /\ IsTwoDigitNumeral(SubSeq(out, k + 1, Len(out)),
                                       (clamped \div 1000) % 60)
                  /\ Len(out) = k + 2
            /\ ms \in {0, -500} => out = <<"0", "0", ":", "0", "0">>
            /\ ms = 61000 => out = <<"0", "1", ":", "0", "1">>
            /\ ms = 3661000 => out = <<"6", "1", ":", "0", "1">>

C18_Witness ==
    /\ DurationFormatted
    /\ Get(resultDetailPage).time_ms = 6000000 + 59000 + 999
    /\ Get(probe).value = <<"1", "0", "0", ":", "5", "9">>

(***************************************************************************)
(* Properties of navigation between questions (Spec).                      *)
(***************************************************************************)
\* C20: a navigation that moves adds now minus questionStartTime to the
\* duration of the question left, leaves the other durations and the
\* AnswerMap as they are, moves the index by one and sets questionStartTime
\* to now.
C20_NavigationFlushesElapsed ==
    [][ lastOp' \in {"next:moved", "prev:moved"}
        => LET i == currentQuestionIndex
           IN  /\ questionStartTime # None
               /\ DOMAIN perQuestionDurationsMs' =
                     DOMAIN perQuestionDurationsMs \cup {i}
               /\ perQuestionDurationsMs'[i] =
                     OrZero(perQuestionDurationsMs, i)
                       + (now - Get(questionStartTime))
               /\ \A k \in DOMAIN perQuestionDurationsMs \ {i} :
                     perQuestionDurationsMs'[k] = perQuestionDurationsMs[k]
               /\ userAnswers' = userAnswers
               /\ currentQuestionIndex' =
                     IF lastOp' = "next:moved" THEN i + 1 ELSE i - 1
               /\ questionStartTime' = Some(now) ]_vars

(***************************************************************************)
(* Properties of the phases of the session (SpecReview).                   *)
(***************************************************************************)
\* C19: in every reachable state at most one of a generation request in
\* flight, a prepared question set and an active question set is present;
\* isSubmitted implies an active set; showAnswers implies isSubmitted and
\* an active set of type MCQ.
C19_OnePhaseAtATime ==
    /\ Cardinality({ p \in {"generating", "prepared", "active"} :
                       \/ p = "generating" /\ genRequests # <<>>
                       \/ p = "prepared" /\ preparedQuestions # None
                       \/ p = "active" /\ questions # None }) =< 1
    /\ isSubmitted => questions # None
    /\ showAnswers => /\ isSubmitted
                      /\ questions # None
                      /\ Get(questions).questionType = "MCQ"

\* the answers page of a submitted and answered quiz whose save failed
C19_Witness ==
    /\ showAnswers
    /\ isSubmitted
    /\ userAnswers # EmptyMap
    /\ genRequests = <<>>
    /\ preparedQuestions = None
    /\ saveStatus = "error"
    /\ lastOp = "showAnswers"

(***************************************************************************)
(* Properties of browsing saved results (SpecResults).                     *)
(***************************************************************************)
\* the calls whose request to the results service has been sent
IsSent(op) == op.stage = "fetch"
RequestsSent(ops) == SelectSeq(ops, IsSent)
LoadStep == lastOp' \in {"openResults", "prevPage", "nextPage", "loadDetail"}

\* C15: a list or detail call made with no cached token sends no request
\* while it asks the provider for one; when the provider yields none the
\* call ends with resultsError 'Not authenticated' and resultsLoading false,
\* no request to the results service having been sent, and the list, page
\* and detail shown stay as they were.
C15_NoCredentialFailsBeforeRequest ==
    [][ /\ (LoadStep /\ cachedToken = "")
           => /\ RequestsSent(resultsOps') = RequestsSent(resultsOps)
              /\ resultsOps'[Len(resultsOps')].stage = "token"
        /\ lastOp' = "tokenLookup:none"
           => /\ resultsError' = Some("Not authenticated")
              /\ ~resultsLoading'
              /\ RequestsSent(resultsOps') = RequestsSent(resultsOps)
              /\ Len(resultsOps') = Len(resultsOps) - 1
              /\ UNCHANGED <<results, resultsPage, resultsLimit,
                             resultsHasMore, selectedResult, resultDetailPage,
                             showResultsPanel, session, quizVars>> ]_vars

\* a detail or list call of a user whose session lost its token after a
\* list had been loaded has ended unauthenticated
C15_Witness ==
    /\ lastOp = "tokenLookup:none"
    /\ session = Some(TokenlessSession)
    /\ results # None
    /\ resultsError = Some("Not authenticated")
    /\ ~resultsLoading
    /\ resultsOps = <<>>

\* C30: whenever a request of a list or detail call is in flight,
\* resultsLoading is true.
C30_LoadingWhileRequestInFlight ==
    RequestsSent(resultsOps) # <<>> => resultsLoading

(***************************************************************************)
(* Properties of signing in (SpecAuth).                                    *)
(***************************************************************************)
AuthStep == lastOp' \in {"auth:bypass", "auth:called"}
AdminPairGiven == authEmail = "admin@example.com" /\ authPassword = "admin123"

\* C16: pressing the button in sign-in mode with the admin email and
\* password stores a locally built session, calls no operation of the
\* identity provider and leaves authLoading false; with any other pair, or
\* in sign-up mode, no session is stored and the provider's sign-in,
\* respectively sign-up, operation is called with the credentials typed.
C16_AdminPairBypassesProvider ==
    [][ AuthStep
        => IF authMode = "signIn" /\ AdminPairGiven
           THEN /\ session' = Some([access_token |-> "dev-bypass",
                                    user |-> "dev-admin"])
                /\ authCalls' = authCalls
                /\ ~authLoading'
                /\ authError' = None
           ELSE /\ session' = session
                /\ Len(authCalls') = Len(authCalls) + 1
                /\ SubSeq(authCalls', 1, Len(authCalls)) = authCalls
                /\ authCalls'[Len(authCalls')].op =
                      (IF authMode = "signIn" THEN "signInWithPassword"
                       ELSE "signUp")
                /\ authCalls'[Len(authCalls')].email = authEmail
                /\ authCalls'[Len(authCalls')].password = authPassword ]_vars

\* the admin pair has signed in locally after a sign-up through the provider
\* had succeeded
C16_Witness ==
    /\ lastOp = "auth:bypass"
    /\ session # None
    /\ Get(session).access_token = "dev-bypass"
    /\ authCalls = <<>>
    /\ ~authLoading
    /\ authInfo # None

(***************************************************************************)
(* Properties of one quiz taken with the clock running (SpecSession).      *)
(***************************************************************************)
\* C21: answering in a running quiz sets the AnswerMap's entry of the
\* current index to a value the question offers and changes nothing else
\* (the other entries, the index, the durations, both timing origins and
\* every other variable of the session stay as they are); navigate-next and
\* navigate-prev never change the AnswerMap.
C21_AnswerUpsertsCurrentOnly ==
    [][ /\ lastOp' = "answer"
           => /\ questions # None /\ ~isSubmitted
              /\ DOMAIN userAnswers' = DOMAIN userAnswers \cup {currentQuestionIndex}
              /\ userAnswers'[currentQuestionIndex] \in answerChoices(AnswerTexts)
              /\ \A k \in DOMAIN userAnswers \ {currentQuestionIndex} :
                    userAnswers'[k] = userAnswers[k]
              /\ UNCHANGED <<currentQuestionIndex, perQuestionDurationsMs,
                             questionStartTime, quizStartTime, totalTimeMs,
                             currentQuestionElapsedMs, questions,
                             preparedQuestions, isSubmitted, showAnswers,
                             saveStatus, saveError, saveRequests, session>>
        /\ (NextStep \/ PrevStep) => userAnswers' = userAnswers ]_vars

\* back on the first question, whose answer was given before moving to the
\* second one, which was answered too: both answers are present
C21_Witness ==
    /\ lastOp = "prev:moved"
    /\ currentQuestionIndex = 0
    /\ DOMAIN userAnswers = {0, 1}
    /\ userAnswers[0] = OptB
    /\ userAnswers[1] = OptA
    /\ now > 0

\* C22: between the start of a quiz and its reset no step lowers or removes
\* an entry of perQuestionDurationsMs: after every step other than a start
\* (navigation, submission, answer, clock and ticker steps, save responses)
\* each entry is still present and at least as large as before.
C22_DurationsNeverDecrease ==
    [][ lastOp' # "begin"
        => \A k \in DOMAIN perQuestionDurationsMs :
              /\ k \in DOMAIN perQuestionDurationsMs'
              /\ perQuestionDurationsMs'[k] >= perQuestionDurationsMs[k] ]_vars

\* submitted after both questions were visited twice and answered: both
\* entries have grown from the value of their first flush
C22_Witness ==
    /\ lastOp = "submit"
    /\ DOMAIN perQuestionDurationsMs = {0, 1}
    /\ perQuestionDurationsMs[0] > 0
    /\ perQuestionDurationsMs[1] > 1
    /\ DOMAIN userAnswers = {0, 1}

\* C23: a step of the live ticker sets currentQuestionElapsedMs to the time
\* since questionStartTime and changes nothing else: the durations, both
\* timing origins, the total, the index, the AnswerMap and everything that
\* determines the phase stay as they are.
C23_TickChangesDisplayOnly ==
    [][ lastOp' = "timerTick"
        => /\ questionStartTime # None
           /\ currentQuestionElapsedMs' = now - Get(questionStartTime)
           /\ UNCHANGED <<perQuestionDurationsMs, questionStartTime,
                          quizStartTime, totalTimeMs, currentQuestionIndex,
                          userAnswers, questions, preparedQuestions,
                          isSubmitted, showAnswers, isCreating, genRequests,
                          saveStatus, saveError, saveRequests, session, error,
                          now>> ]_vars

\* the ticker has refreshed the display of the second question, two time
\* units after it was shown, with a flushed duration and an answer present
C23_Witness ==
    /\ lastOp = "timerTick"
    /\ currentQuestionIndex = 1
    /\ currentQuestionElapsedMs = 2
    /\ perQuestionDurationsMs # EmptyMap
    /\ userAnswers # EmptyMap

(***************************************************************************)
(* Properties of the live ticker (SpecTimer).                              *)
(***************************************************************************)
\* the phase InProgress: an active question set that is not submitted
InProgress == questions # None /\ ~isSubmitted

\* C24: the live ticker's interval exists only while the phase is
\* InProgress, and a ticker step is taken only from an InProgress state:
\* once a submission, going home or a completed sign-out has left
\* InProgress the interval is gone and no ticker step follows.
C24_TimerOnlyInProgress ==
    [][ /\ timerActive' => InProgress'
        /\ (lastOp' = "timerTick") => (InProgress /\ InProgress')
        /\ (InProgress /\ ~InProgress')
              => /\ lastOp' \in {"submit", "goHome", "signOut:done"}
                 /\ ~timerActive' ]_vars

\* signed out of a running quiz whose ticker had refreshed the display: the
\* interval is gone although questionStartTime is still set
C24_Witness ==
    /\ lastOp = "signOut:done"
    /\ questionStartTime # None
    /\ currentQuestionElapsedMs > 0
    /\ ~InProgress
    /\ ~timerActive

\* C25: in every InProgress state, the one right after a start included,
\* the live ticker's interval exists (so that each tick refreshes the
\* elapsed-time display of the current question).
C25_TimerActiveWhileInProgress == InProgress => timerActive

(***************************************************************************)
(* Properties of the submitted quiz (SpecReview).                          *)
(***************************************************************************)
\* the phases Submitted and ReviewingAnswers
Submitted == questions # None /\ isSubmitted /\ ~showAnswers
ReviewingAnswers == questions # None /\ isSubmitted /\ showAnswers

\* C26: every step that enters ReviewingAnswers is a show-answers step
\* taken in Submitted with an active set of type MCQ; a back step taken in
\* ReviewingAnswers ends in Submitted and leaves the question set, the
\* AnswerMap, the durations, totalTimeMs, the save status and the save
\* error unchanged.  Show-answers changes none of them either.
C26_ReviewOnlyFromSubmittedMcq ==
    [][ /\ (~ReviewingAnswers /\ ReviewingAnswers')
              => /\ lastOp' = "showAnswers"
                 /\ Submitted
                 /\ Get(questions).questionType = "MCQ"
        /\ (lastOp' = "backToResults")
              => /\ ReviewingAnswers
                 /\ Submitted'
        /\ (lastOp' \in {"showAnswers", "backToResults"})
              => UNCHANGED <<questions, userAnswers, perQuestionDurationsMs,
                             totalTimeMs, saveStatus, saveError, saveRequests,
                             currentQuestionIndex, quizStartTime,
                             questionStartTime>> ]_vars

\* back on the results screen of an answered MCQ quiz, after the answers
\* page was read while the save request failed
C26_Witness ==
    /\ lastOp = "backToResults"
    /\ Submitted
    /\ Get(questions).questionType = "MCQ"
    /\ DOMAIN userAnswers = {0, 1}
    /\ saveStatus = "error"
    /\ perQuestionDurationsMs # EmptyMap

\* the index of the last question of the active set
lastIndex == totalQuestions(Get(questions)) - 1

\* C27: while a quiz is in progress the forward button is Submit exactly on
\* the last question and Next exactly on every earlier one; a submission is
\* made only on the last question, a next step that moves only before it,
\* and in every state with a submitted quiz the index is the last index.
C27_SubmitOnlyAtLastIndex ==
    [][ /\ InProgress'
           => /\ currentQuestionIndex' \in 0..lastIndex'
              /\ (forwardAction' = "submit") <=> (currentQuestionIndex' = lastIndex')
              /\ (forwardAction' = "next") <=> (currentQuestionIndex' < lastIndex')
        /\ (lastOp' = "submit")
           => /\ InProgress
              /\ currentQuestionIndex = lastIndex
              /\ forwardAction = "submit"
        /\ (lastOp' = "next:moved")
           => /\ currentQuestionIndex < lastIndex
              /\ forwardAction = "next"
        /\ (questions' # None /\ isSubmitted')
           => currentQuestionIndex' = lastIndex' ]_vars

\* a two-question quiz submitted from its second question, after both
\* were answered
C27_Witness ==
    /\ lastOp = "submit"
    /\ isSubmitted
    /\ totalQuestions(Get(questions)) = 2
    /\ currentQuestionIndex = 1
    /\ DOMAIN userAnswers = {0, 1}

\* C28: a submission issues one save request, whose timeMs is the
\* totalTimeMs the submission stores (now minus quizStartTime), whose
\* questions are the active set, whose userAnswers are the AnswerMap at the
\* submission and whose score is the Scorer's result on that set and map,
\* which is also the score of the results screen that follows.
C28_SavePayloadMatchesSubmission ==
    [][ lastOp' = "submit"
        => /\ Len(saveRequests') = Len(saveRequests) + 1
           /\ SubSeq(saveRequests', 1, Len(saveRequests)) = saveRequests
           /\ LET r == saveRequests'[Len(saveRequests')]
              IN  /\ totalTimeMs' # None
                  /\ r.timeMs = Get(totalTimeMs')
                  /\ quizStartTime # None
                  /\ r.timeMs = now - Get(quizStartTime)
                  /\ r.questions = Get(questions)
                  /\ r.solutions.userAnswers = userAnswers
                  /\ r.solutions.score = calculateScore(questions, userAnswers)
                  /\ r.solutions.score = calculateScore(questions', userAnswers') ]_vars

\* a two-question MCQ quiz submitted after three time units with one of its
\* two answers right: the request in flight carries these values
C28_Witness ==
    /\ lastOp = "submit"
    /\ Len(saveRequests) = 1
    /\ saveRequests[1].timeMs = 3
    /\ saveRequests[1].questions = McqTwo
    /\ DOMAIN saveRequests[1].solutions.userAnswers = {0, 1}
    /\ saveRequests[1].solutions.score = 1

(***************************************************************************)
(* Properties of overlapping save requests (SpecSaves).                    *)
(***************************************************************************)
\* the step delivers the response of the save request at position i, and of
\* no other position: requests are appended in the order of the submissions
OnlyResponseAt(i) ==
    /\ lastOp' \in {"save:success", "save:failure"}
    /\ i \in 1..Len(saveRequests)
    /\ saveRequests' = RemoveAt(saveRequests, i)
    /\ \A j \in 1..Len(saveRequests) :
          j # i => saveRequests' # RemoveAt(saveRequests, j)

\* C29: the response of a save request that arrives while the request of a
\* later submission is still in flight does not change the save status
\* (which stays 'saving') nor the save error.
C29_OlderResponseKeepsStatus ==
    [][ \A i \in 1..Len(saveRequests) :
          (OnlyResponseAt(i) /\ i < Len(saveRequests))
            => /\ saveStatus = "saving"
               /\ saveStatus' = "saving"
               /\ saveError' = saveError ]_vars

(***************************************************************************)
(* Properties of the whole application (SpecRecovery).                     *)
(***************************************************************************)
\* C31: a list or detail call that fails (the request threw, or no token
\* was found) sets resultsError to a message and resultsLoading to false
\* and changes nothing else: the quiz session, the list and page loaded
\* before, the detail selected, the saved-result page, the panel's
\* visibility and the session stay as they are.
C31_ResultsFailureChangesErrorOnly ==
    [][ lastOp' \in {"results:failure", "tokenLookup:none"}
        => /\ resultsError' # None
           /\ ~resultsLoading'
           /\ UNCHANGED <<quizVars, results, resultsPage, resultsLimit,
                          resultsHasMore, selectedResult, resultDetailPage,
                          showResultsPanel, session>> ]_vars

\* a detail call has failed while a quiz is in progress, a list is loaded
\* and the page of a saved result is open
C31_Witness ==
    /\ lastOp = "results:failure"
    /\ questions # None
    /\ ~isSubmitted
    /\ results # None
    /\ selectedResult # None
    /\ resultDetailPage # None
    /\ resultsError = Some("Failed to fetch")
    /\ ~resultsLoading

\* Configuring, at rest: a signed-in user is shown the setup form, with no
\* error, no request in flight, no question set and nothing of the results
\* panel open
ConfiguringAtRest ==
    /\ Authenticated
    /\ SetupFormShown
    /\ ~isCreating
    /\ genRequests = <<>>
    /\ ~showResultsPanel

\* what separates a state from ConfiguringAtRest, weighted so that each
\* recovery step lowers it: a response delivered, the error dismissed, the
\* prepared set started, going home
Distance ==
    16 * Len(genRequests)
    + (IF preparedQuestions # None THEN 8 ELSE 0)
    + (IF questions # None THEN 4 ELSE 0)
    + (IF error # None THEN 2 ELSE 0)
    + (IF resultDetailPage # None THEN 1 ELSE 0)
    + (IF showResultsPanel THEN 1 ELSE 0)

\* C32: in every reachable state with a session that is not Configuring at
\* rest, some user action or response delivery is possible that brings the
\* application closer to it; the distance being a natural number, a
\* sequence of such steps ends in Configuring at rest.
C32_RecoveryStepExists ==
    (Authenticated /\ ~ConfiguringAtRest)
        => ENABLED (NextRecovery /\ Distance' < Distance)

(***************************************************************************)
(* Properties of generating (SpecGeneration).                              *)
(***************************************************************************)
\* C33: at most one generation request is in flight, and one is in flight
\* exactly while isCreating is true; while isCreating is true the form
\* cannot be submitted, and every request is issued from a state with no
\* request in flight.
C33_OneGenerationInFlight ==
    [][ /\ Len(genRequests') =< 1
        /\ isCreating' <=> (genRequests' # <<>>)
        /\ isCreating => ~ENABLED handleCreateQuiz
        /\ (lastOp' \in {"create:issued", "create:invalid"})
              => (~isCreating /\ genRequests = <<>>) ]_vars

\* a request is still in flight after the user opened the results panel,
\* signed out and was signed in again: the setup form is shown with its
\* button disabled
C33_Witness ==
    /\ lastOp = "authStateChange"
    /\ Authenticated
    /\ SetupFormShown
    /\ isCreating
    /\ Len(genRequests) = 1
    /\ results # None
    /\ ~showResultsPanel

(***************************************************************************)
(* Properties of quizzes taken one after another (SpecSaves).              *)
(***************************************************************************)
\* C34: while a question set with at least one question is active, in
\* progress or submitted, the index is one of its questions and so is
\* every key of the AnswerMap and of perQuestionDurationsMs.
C34_IndexAndKeysValid ==
    (questions # None /\ totalQuestions(Get(questions)) >= 1)
        => /\ currentQuestionIndex \in 0..lastIndex
           /\ DOMAIN userAnswers \subseteq 0..lastIndex
           /\ DOMAIN perQuestionDurationsMs \subseteq 0..lastIndex

\* a one-question quiz answered and submitted while the save of an earlier
\* two-question quiz, both of whose questions were answered, is in flight
C34_Witness ==
    /\ lastOp = "submit"
    /\ Len(saveRequests) = 2
    /\ saveRequests[1].questions = McqTwo
    /\ DOMAIN saveRequests[1].solutions.userAnswers = {0, 1}
    /\ questions = Some(SubjectiveOne)
    /\ isSubmitted
    /\ DOMAIN userAnswers = {0}
    /\ DOMAIN perQuestionDurationsMs = {0}

(***************************************************************************)
(* Properties of the timing of later quizzes (Spec).                       *)
(***************************************************************************)
\* C35: while a question set is active, in progress or submitted, the sum
\* of the entries of perQuestionDurationsMs is at most the time that has
\* passed since quizStartTime.
C35_DurationsWithinSession ==
    (questions # None /\ quizStartTime # None)
        => SumMap(perQuestionDurationsMs) =< now - Get(quizStartTime)

(***************************************************************************)
(* Properties of moving forward (SpecNavigate).                            *)
(***************************************************************************)
\* the Submit button is on the screen
submitAvailable == mounted /\ QuizShown /\ forwardAction = "submit"

\* C36: from every state with a quiz in progress, whatever question set the
\* service returned, pressing Next again and again leads to a state in
\* which Submit is available.
C36_NextLeadsToSubmit == InProgress ~> submitAvailable

(***************************************************************************)
(* Properties of the error card (SpecRecovery).                            *)
(***************************************************************************)
\* C37: while a generation error is displayed no generation request is in
\* flight and there is neither a prepared nor an active question set;
\* 'Try Again' clears the error and nothing else, and the setup form is then
\* shown with the configuration as it was.
C37_ErrorOnlyWhileConfiguring ==
    [][/\ error' # None =>
            /\ genRequests' = <<>>
            /\ ~isCreating'
            /\ preparedQuestions' = None
            /\ questions' = None
       /\ lastOp' = "dismissError" =>
            /\ error # None /\ error' = None
            /\ SetupFormShown'
            /\ UNCHANGED <<session, isCreating, quizConfig, formErrors,
                           effectiveTopic, questions, preparedQuestions,
                           currentQuestionIndex, userAnswers, isSubmitted,
                           showAnswers, quizStartTime, totalTimeMs,
                           questionStartTime, currentQuestionElapsedMs,
                           perQuestionDurationsMs, saveStatus, saveError,
                           showResultsPanel, genRequests, saveRequests,
                           resultsVars>>]_vars

(***************************************************************************)
(* Properties of the saved topic (SpecSavedTopic).                         *)
(***************************************************************************)
\* the configuration of the generation request that produced the set now
\* prepared or active: effectiveTopic is its resolved topic, and with the
\* topic input left at its default the resolved topic names the exam
requestConfig ==
    CHOOSE cfg \in ExamConfigs : resolveTopic(cfg) = effectiveTopic

\* C38: the topic saved with a result is the exam and the resolved topic of
\* the generation request that produced the submitted set, also when the
\* form was edited while that request was in flight.
C38_SavedTopicIsOfRequest ==
    [][/\ lastOp' = "create:issued" =>
            /\ genRequests'[Len(genRequests')].quizConfig = quizConfig
            /\ quizConfig \in ExamConfigs
            /\ effectiveTopic' = resolveTopic(quizConfig)
       /\ lastOp' # "create:issued" => effectiveTopic' = effectiveTopic
       /\ lastOp' = "submit" =>
            /\ Len(saveRequests') = Len(saveRequests) + 1
            /\ saveRequests'[Len(saveRequests')].topic =
                   requestConfig.exam \o S_Colon \o resolveTopic(requestConfig)]_vars

(***************************************************************************)
(* Properties of signing out (SpecSignOut).                                *)
(***************************************************************************)
\* no quiz data is held: no active and no prepared question set, an empty
\* answer map, not submitted
NoQuizData ==
    /\ questions = None
    /\ preparedQuestions = None
    /\ userAnswers = EmptyMap
    /\ ~isSubmitted

\* C39: when a sign-out completes (the provider's failure is swallowed) the
\* session is absent and no quiz data is held, and none appears while
\* nobody is signed in (a generation response that was in flight at the
\* sign-out included), so that the next sign-in starts without the data of
\* the user who signed out.
C39_SignOutLeavesNoQuizData ==
    [][/\ lastOp' = "signOut:done" => session' = None /\ NoQuizData'
       /\ (session = None /\ session' = None /\ NoQuizData) => NoQuizData'
       /\ (session = None /\ session' # None) =>
              UNCHANGED <<questions, preparedQuestions, userAnswers, isSubmitted>>]_vars

(***************************************************************************)
(* Properties of the bypass session (SpecAuth).                            *)
(***************************************************************************)
\* C40: a session established by the bypass sign-in stays as it is until
\* sign-out is invoked: no callback of the identity provider (setSession of
\* the getSession resolution or of an auth-state-change event) delivered
\* after the bypass sign-in clears or replaces it.
C40_BypassSessionKept ==
    [][(session = Some(fakeSession) /\ signOutPending = 0)
          => session' = session]_vars

====
